---- MODULE Spec2Model ----
(***************************************************************************)
(* Level engine of the git learning game: the zustand store               *)
(* (src/src/store/gameStore.ts), the repository adapter                    *)
(* (src/src/services/gitService.ts), the level catalog                     *)
(* (src/src/data/levels.ts) and the navigation handlers of src/src/App.tsx.*)
(*                                                                         *)
(* The version-control engine (isomorphic-git) and the virtual filesystem  *)
(* (lightning-fs) are libraries outside the repository.  They are modelled *)
(* by what the adapter's calls do to a repository record:                  *)
(*   exists  - /repo and /repo/.git exist                                  *)
(*   work    - working files, path -> content                              *)
(*   index   - staged files, path -> content                               *)
(*   commits - commit records; a commit's oid is its position              *)
(*   heads   - refs/heads, branch name -> oid                              *)
(*   head    - the branch HEAD is attached to                              *)
(* One adapter call is one atomic step; every await of an adapter call is  *)
(* a point where other handlers may run.                                   *)
(*                                                                         *)
(* Spec     - the player starts a handler when none is in flight           *)
(* SpecRace - handlers start while others are in flight                    *)
(* SpecDeep - a long history of commits on the first level                 *)
(***************************************************************************)
EXTENDS Integers, Sequences, FiniteSets, Bags, TLC

VARIABLES
    repo,               \* the GitService singleton's filesystem and git state
    currentLevel,       \* store: index of the active level (0-based)
    completedLevels,    \* store: set of level indexes completed at least once
    initializedLevels,  \* store: set of level indexes whose setup was replayed
    commits,            \* store: result of the last gitService.log()
    refs,               \* store: result of the last gitService.getRefs()
    fileTree,           \* store: result of the last gitService.getFileTree()
    isLevelComplete,    \* store: completion flag of the active level
    tasks,              \* bag of async handlers in flight
    mounted,            \* App's mount effect has run
    lastOp              \* history: what the last step did

vars == <<repo, currentLevel, completedLevels, initializedLevels, commits, refs,
          fileTree, isLevelComplete, tasks, mounted, lastOp>>

storeVars == <<currentLevel, completedLevels, initializedLevels, commits, refs,
               fileTree, isLevelComplete>>

----------------------------------------------------------------------------
(* Bounds of the model *)

\* commits the repository may hold when handlers run one at a time
MaxCommits == 5

\* highest level index the player is let into when handlers run one at a time
MaxLevel == 3

\* async handlers in flight at once when handlers overlap
MaxInFlight == 2

\* commits the repository may hold when handlers overlap
RaceCommits == 4

\* highest level index the player is let into when handlers overlap
RaceLevel == 2

\* commits the repository may hold in the long-history game
DeepCommits == 101

\* commits the repository may hold in the terminal session
ShellCommits == 2

\* entries the stash stack may hold in the terminal session
ShellStash == 2

\* commits of a session that moves HEAD
HeadCommits == 3

\* commits and levels of a session in which Next Level is pressed early
SwitchCommits == 7

SwitchLevel == 4

\* commits and levels of a session in the store of git-learning-game
OlderCommits == 3

OlderLevel == 2

----------------------------------------------------------------------------
(* Strings that the code parses are sequences of characters *)

StartsWith(s, p) == Len(s) >= Len(p) /\ SubSeq(s, 1, Len(p)) = p

\* index of the first ":" at or after position i, or Len(s)+1
RECURSIVE ColonFrom(_, _)
ColonFrom(s, i) ==
    IF i > Len(s) THEN Len(s) + 1
    ELSE IF s[i] = ":" THEN i ELSE ColonFrom(s, i + 1)

\* condition.split(':')[1] for a string that holds a ':'
SplitSecond(s) ==
    LET c1 == ColonFrom(s, 1)
        c2 == ColonFrom(s, c1 + 1)
    IN  SubSeq(s, c1 + 1, c2 - 1)

Digits == <<"0", "1", "2", "3", "4", "5", "6", "7", "8", "9">>

IsDigit(c) == \E d \in 1..10 : Digits[d] = c

DigitVal(c) == (CHOOSE d \in 1..10 : Digits[d] = c) - 1

IsSpace(c) == c = " "

RECURSIVE SkipSpaces(_)
SkipSpaces(s) ==
    IF Len(s) > 0 /\ IsSpace(Head(s)) THEN SkipSpaces(Tail(s)) ELSE s

RECURSIVE DigitRun(_, _)
DigitRun(s, acc) ==
    IF Len(s) > 0 /\ IsDigit(Head(s))
    THEN DigitRun(Tail(s), acc * 10 + DigitVal(Head(s)))
    ELSE acc

\* a JavaScript number: an integer or NaN
Num(n) == [nan |-> FALSE, val |-> n]

NaN == [nan |-> TRUE, val |-> 0]

\* parseInt: leading white space, an optional sign, then the longest run of
\* digits; NaN when there is no digit
ParseInt(s) ==
    LET t    == SkipSpaces(s)
        neg  == Len(t) > 0 /\ Head(t) = "-"
        sgn  == Len(t) > 0 /\ (Head(t) = "-" \/ Head(t) = "+")
        body == IF sgn THEN Tail(t) ELSE t
    IN  IF Len(body) = 0 \/ ~IsDigit(Head(body)) THEN NaN
        ELSE IF neg THEN Num(0 - DigitRun(body, 0)) ELSE Num(DigitRun(body, 0))

\* the characters of the strings that are compared or parsed character by
\* character: branch names and stash references
Chars(name) ==
    CASE name = "main" -> <<"m", "a", "i", "n">>
      [] name = "feature" -> <<"f", "e", "a", "t", "u", "r", "e">>
      [] name = "-1" -> <<"-", "1">>
      [] name = "abc" -> <<"a", "b", "c">>
      [] name = "stash@{0}" -> <<"s", "t", "a", "s", "h", "@", "{", "0", "}">>
      [] name = "stash@{1}" -> <<"s", "t", "a", "s", "h", "@", "{", "1", "}">>
      [] OTHER -> <<name>>

\* a >= b for an integer a and a JavaScript number b: false when b is NaN
GreaterEq(a, b) == ~b.nan /\ a >= b.val

----------------------------------------------------------------------------
(* The repository adapter *)

NoFiles == [p \in {} |-> ""]

NoHeads == [b \in {} |-> 0]

defaultBranch == "main"

\* the filesystem before anything was created in it, and the fields of a new
\* GitService: an empty stash stack and the remote 'origin' with no branch
FreshFS ==
    [exists |-> FALSE, work |-> NoFiles, index |-> NoFiles, commits |-> <<>>,
     heads |-> NoHeads, head |-> defaultBranch, detached |-> 0,
     stash |-> <<>>, remotes |-> [n \in {"origin"} |-> NoHeads]]

\* log({depth: 100})
LogDepth == 100

Put(f, p, c) == [q \in DOMAIN f \cup {p} |-> IF q = p THEN c ELSE f[q]]

\* git.init: creates the repository unless .git/config is there already
init(r) ==
    IF r.exists THEN r
    ELSE [r EXCEPT !.exists = TRUE, !.index = NoFiles, !.commits = <<>>,
                   !.heads = NoHeads, !.head = defaultBranch, !.detached = 0]

\* resetRepo: readdir of a missing /repo throws and the catch swallows it;
\* otherwise every entry but .git is removed and init() runs
resetRepo(r) ==
    IF ~r.exists THEN r
    ELSE init([r EXCEPT !.work = NoFiles])

\* the results of an adapter call: the repository after it and whether it threw
Ok(r) == [repo |-> r, threw |-> FALSE]

Threw(r) == [repo |-> r, threw |-> TRUE]

\* writeFile: fails when /repo does not exist
writeFile(r, p, c) ==
    IF ~r.exists THEN Threw(r)
    ELSE Ok([r EXCEPT !.work = Put(r.work, p, c)])

\* git.add: the file must exist in the working directory
add(r, p) ==
    IF ~r.exists \/ p \notin DOMAIN r.work THEN Threw(r)
    ELSE Ok([r EXCEPT !.index = Put(r.index, p, r.work[p])])

\* the commit HEAD resolves to, 0 when there is none: the oid HEAD holds when
\* it is detached, otherwise the one of the branch it names
HeadOid(r) ==
    IF r.detached # 0 THEN r.detached
    ELSE IF r.head \in DOMAIN r.heads THEN r.heads[r.head] ELSE 0

\* git.commit: a commit of the index whose parent is the current position;
\* it moves the branch HEAD names, or HEAD itself when HEAD is detached
commit(r, msg) ==
    IF ~r.exists THEN Threw(r)
    ELSE LET oid == Len(r.commits) + 1
             c   == [message |-> msg,
                     parent |-> IF HeadOid(r) = 0 THEN <<>> ELSE <<HeadOid(r)>>,
                     tree |-> r.index]
         IN  IF r.detached # 0
             THEN Ok([r EXCEPT !.commits = Append(r.commits, c), !.detached = oid])
             ELSE Ok([r EXCEPT !.commits = Append(r.commits, c),
                               !.heads = Put(r.heads, r.head, oid)])

\* git.branch: fails when the branch exists; writes no ref in an empty repository
branch(r, name) ==
    IF ~r.exists \/ name \in DOMAIN r.heads THEN Threw(r)
    ELSE IF HeadOid(r) = 0 THEN Ok(r)
    ELSE Ok([r EXCEPT !.heads = Put(r.heads, name, HeadOid(r))])

\* paths of the working directory that git.checkout refuses to overwrite
CheckoutConflicts(r, target) ==
    {p \in DOMAIN r.work :
        IF p \in DOMAIN target
        THEN IF p \in DOMAIN r.index
             THEN r.index[p] # target[p] /\ r.work[p] # r.index[p]
             ELSE r.work[p] # target[p]
        ELSE p \in DOMAIN r.index /\ r.work[p] # r.index[p]}

\* the commit a full object id written on a command line names, 0 for any
\* other text
OidOf(ref) ==
    CASE ref = "oid1" -> 1
      [] ref = "oid2" -> 2
      [] OTHER -> 0

\* the commit a checkout argument resolves to, 0 when it resolves to none: a
\* branch name first, then the full id of a commit of the repository
Resolved(r, ref) ==
    IF ref \in DOMAIN r.heads THEN r.heads[ref]
    ELSE IF OidOf(ref) \in DOMAIN r.commits THEN OidOf(ref) ELSE 0

\* git.checkout: fails when the ref does not resolve or local changes would be
\* overwritten; otherwise the index and the tracked files follow, and HEAD
\* names the branch, or holds the commit itself when the ref is not a branch
checkout(r, ref) ==
    IF ~r.exists \/ Resolved(r, ref) = 0 THEN Threw(r)
    ELSE LET target  == r.commits[Resolved(r, ref)].tree
             tracked == DOMAIN r.index
             keep    == {p \in DOMAIN r.work :
                            p \in DOMAIN target \/ p \notin tracked}
         IN  IF CheckoutConflicts(r, target) # {} THEN Threw(r)
             ELSE Ok([r EXCEPT
                    !.head = IF ref \in DOMAIN r.heads THEN ref ELSE r.head,
                    !.detached = IF ref \in DOMAIN r.heads THEN 0
                                 ELSE Resolved(r, ref),
                    !.index = target,
                    !.work = [p \in keep \cup DOMAIN target |->
                                IF p \in DOMAIN target
                                THEN IF p \in DOMAIN r.work /\ p \in DOMAIN r.index
                                        /\ r.index[p] = target[p]
                                     THEN r.work[p] ELSE target[p]
                                ELSE r.work[p]]])

\* oids reachable from the oids in set, scanning k, k-1, ..., 1
RECURSIVE Reach(_, _, _)
Reach(cs, k, set) ==
    IF k = 0 THEN set
    ELSE IF k \in set
         THEN Reach(cs, k - 1, set \cup {cs[k].parent[i] : i \in DOMAIN cs[k].parent})
         ELSE Reach(cs, k - 1, set)

\* the members of set in descending order, at most depth of them
RECURSIVE Descending(_, _, _)
Descending(set, k, depth) ==
    IF k = 0 \/ depth = 0 THEN <<>>
    ELSE IF k \in set THEN <<k>> \o Descending(set, k - 1, depth - 1)
         ELSE Descending(set, k - 1, depth)

\* the commits reachable from the current position, not bounded by a depth
Reachable(r) ==
    IF ~r.exists \/ HeadOid(r) = 0 THEN {}
    ELSE Reach(r.commits, HeadOid(r), {HeadOid(r)})

\* log: the oids reachable from HEAD, most recent first, at most LogDepth;
\* [] when git.log throws
log(r) == Descending(Reachable(r), Len(r.commits), LogDepth)

\* listBranches
listBranches(r) == DOMAIN r.heads

\* a currentBranch that always answers with its fallback
currentBranchFallback(r) == defaultBranch

\* currentBranch: the branch HEAD names; git.currentBranch has no answer when
\* HEAD is detached and the adapter falls back to 'main'
currentBranch(r) == IF r.detached # 0 THEN defaultBranch ELSE r.head

\* getRefs: one ref per branch, the current one typed HEAD; [] when it throws
getRefs(r) ==
    IF ~r.exists THEN {}
    ELSE {[name |-> b, oid |-> r.heads[b],
           type |-> IF b = currentBranch(r) THEN "HEAD" ELSE "branch"] :
             b \in listBranches(r)}

\* getFileTree: the working files, .git left out
getFileTree(r) == r.work


\* statusMatrix rows whose head is 0 and whose workdir is not 0: untracked paths
Untracked(r) ==
    LET headTree == IF HeadOid(r) = 0 THEN NoFiles ELSE r.commits[HeadOid(r)].tree
    IN  {p \in DOMAIN r.work : p \notin DOMAIN headTree}

\* the tree of the commit HEAD resolves to; the empty tree before the first commit
HeadTree(r) == IF HeadOid(r) = 0 THEN NoFiles ELSE r.commits[HeadOid(r)].tree

\* statusMatrix: one row [filepath, head, workdir, stage] per path.  head is 1
\* when HEAD has the path; workdir is 0 when the file is absent, 1 when it is
\* as in HEAD, 2 otherwise; stage is 0 when the index lacks the path, 1 when it
\* is as in HEAD, 2 when it is as in the working directory, 3 otherwise
status(r) ==
    LET h == HeadTree(r)
    IN  {[filepath |-> p,
          head     |-> IF p \in DOMAIN h THEN 1 ELSE 0,
          workdir  |-> IF p \notin DOMAIN r.work THEN 0
                       ELSE IF p \in DOMAIN h /\ r.work[p] = h[p] THEN 1 ELSE 2,
          stage    |-> IF p \notin DOMAIN r.index THEN 0
                       ELSE IF p \in DOMAIN h /\ r.index[p] = h[p] THEN 1
                       ELSE IF p \in DOMAIN r.work /\ r.index[p] = r.work[p] THEN 2
                       ELSE 3] :
            p \in DOMAIN h \cup DOMAIN r.index \cup DOMAIN r.work}

\* the paths of the rows with workdir !== head && workdir !== 0
Modified(r) == {x.filepath : x \in {y \in status(r) : y.workdir # y.head /\ y.workdir # 0}}

\* the paths of the rows with stage !== head
Staged(r) == {x.filepath : x \in {y \in status(r) : y.stage # y.head}}

\* what a call made inside gitService.executeCommand's try block gives: the
\* repository after it, and either the text it returns or the error it throws
Say(r, out) == [repo |-> r, out |-> out, threw |-> FALSE]

Raise(r, m) == [repo |-> r, out |-> <<m>>, threw |-> TRUE]

\* args[i], 0-based; "" stands for undefined (no token of a split line is empty)
Arg(args, i) == IF i >= 0 /\ i < Len(args) THEN args[i + 1] ELSE ""

\* add() of each path of a set, one after the other (none of them can fail)
RECURSIVE AddEach(_, _)
AddEach(r, ps) ==
    IF ps = {} THEN r
    ELSE LET p == CHOOSE q \in ps : TRUE
         IN  AddEach(add(r, p).repo, ps \ {p})

\* case 'add': the arguments in order; '.' stages the untracked paths and returns
RECURSIVE AddArgs(_, _, _)
AddArgs(r, args, all) ==
    IF args = <<>> THEN Say(r, <<"Added ">> \o all)
    ELSE IF Head(args) = "."
         THEN IF ~r.exists THEN Raise(r, "status")
              ELSE Say(AddEach(r, Untracked(r)), <<"Added all files">>)
         ELSE LET a == add(r, Head(args))
              IN  IF a.threw THEN Raise(r, Head(args))
                  ELSE AddArgs(a.repo, Tail(args), all)

\* args.indexOf(x): 0-based, -1 when absent
RECURSIVE IndexOfFrom(_, _, _)
IndexOfFrom(args, x, i) ==
    IF i > Len(args) THEN -1
    ELSE IF args[i] = x THEN i - 1 ELSE IndexOfFrom(args, x, i + 1)

IndexOf(args, x) == IndexOfFrom(args, x, 1)

\* a token without the quote it starts with
DropLeadingQuote(tok) ==
    CASE tok = "\"\"" -> "\""
      [] tok = "''" -> "'"
      [] tok = "\"Initial" -> "Initial"
      [] tok = "\"Main" -> "Main"
      [] tok = "\"Feature" -> "Feature"
      [] tok = "\"Add" -> "Add"
      [] OTHER -> tok

\* a token without the quote it ends with
DropTrailingQuote(tok) ==
    CASE tok = "\"" -> ""
      [] tok = "'" -> ""
      [] tok = "commit\"" -> "commit"
      [] tok = "application\"" -> "application"
      [] tok = "app\"" -> "app"
      [] OTHER -> tok

\* join(' ').replace(/^["']|["']$/g, '') on the tokens of a message: the quote
\* the text starts with and the quote it ends with are removed
StripQuotes(m) ==
    [i \in DOMAIN m |->
        LET a == IF i = 1 THEN DropLeadingQuote(m[i]) ELSE m[i]
        IN  IF i = Len(m) THEN DropTrailingQuote(a) ELSE a]

\* case 'commit'
CommitCase(r, args) ==
    LET messageIndex == IndexOf(args, "-m")
    IN  IF messageIndex >= 0 /\ Arg(args, messageIndex + 1) # ""
        THEN LET message == StripQuotes(SubSeq(args, messageIndex + 2, Len(args)))
                 c       == commit(r, message)
             IN  IF c.threw THEN Raise(r, "commit")
                 ELSE Say(c.repo, <<"[", currentBranch(c.repo), "] ">> \o message)
        ELSE Say(r, <<"Error: commit message required (-m flag)">>)

\* case 'branch'
BranchCase(r, args) ==
    IF Len(args) = 0
    THEN IF ~r.exists THEN Raise(r, "branch")
         ELSE Say(r, <<"* ", currentBranch(r)>>)
    ELSE IF args[1] = "-d" /\ Arg(args, 1) # ""
    THEN Say(r, <<"Deleted branch ", args[2], " (simulated)">>)
    ELSE LET b == branch(r, args[1])
         IN  IF b.threw THEN Raise(r, args[1])
             ELSE Say(b.repo, <<"Created branch ", args[1]>>)

\* case 'checkout'; without an argument git.checkout falls back to HEAD
CheckoutCase(r, args) ==
    IF Arg(args, 0) = "-b" /\ Arg(args, 1) # ""
    THEN LET b == branch(r, args[2])
             c == checkout(b.repo, args[2])
         IN  IF b.threw THEN Raise(r, args[2])
             ELSE IF c.threw THEN Raise(b.repo, args[2])
             ELSE Say(c.repo, <<"Switched to a new branch '", args[2], "'">>)
    ELSE IF Len(args) = 0
    THEN LET c == checkout(r, r.head)
         IN  IF c.threw THEN Raise(r, "checkout")
             ELSE Say(c.repo, <<"Switched to branch '", "undefined", "'">>)
    ELSE LET c == checkout(r, args[1])
         IN  IF c.threw THEN Raise(r, args[1])
             ELSE Say(c.repo, <<"Switched to branch '", args[1], "'">>)

\* the lines of case 'log' for the oids of a log, the messages joined in
RECURSIVE LogLines(_, _)
LogLines(r, oids) ==
    IF oids = <<>> THEN <<>>
    ELSE <<"commit ">> \o r.commits[Head(oids)].message \o LogLines(r, Tail(oids))

\* case 'log': the empty text when there is no commit
LogCase(r, args) ==
    IF log(r) = <<>> THEN Say(r, <<"">>) ELSE Say(r, LogLines(r, log(r)))

\* case 'status': the branch, then one heading per non-empty class of rows
StatusCase(r, args) ==
    IF ~r.exists THEN Raise(r, "status")
    ELSE Say(r, <<"On branch ", currentBranch(r)>>
                \o (IF Staged(r) # {} THEN <<"Changes to be committed:">> ELSE <<>>)
                \o (IF Modified(r) # {} THEN <<"Changes not staged for commit:">> ELSE <<>>)
                \o (IF Untracked(r) # {} THEN <<"Untracked files:">> ELSE <<>>))

\* a map without one of its keys
Drop(f, p) == [q \in DOMAIN f \ {p} |-> f[q]]

\* git.checkout({filepaths: [p], force: true}): HEAD must resolve; a path of
\* HEAD is written back to the working directory and the index as HEAD has it,
\* a path HEAD does not have is deleted from both
checkoutPath(r, p) ==
    IF ~r.exists \/ HeadOid(r) = 0 THEN Threw(r)
    ELSE IF p \in DOMAIN HeadTree(r)
    THEN Ok([r EXCEPT !.work = Put(r.work, p, HeadTree(r)[p]),
                      !.index = Put(r.index, p, HeadTree(r)[p])])
    ELSE Ok([r EXCEPT !.work = Drop(r.work, p), !.index = Drop(r.index, p)])

\* stashSave's second loop: checkoutPath of each path, its errors ignored
RECURSIVE RevertEach(_, _)
RevertEach(r, ps) ==
    IF ps = {} THEN r
    ELSE LET p == CHOOSE q \in ps : TRUE
         IN  RevertEach(checkoutPath(r, p).repo, ps \ {p})

\* stashSave: the changed files are saved in a new entry at the front of the
\* stack and reverted; "" stands for no message
stashSave(r, message) ==
    IF ~r.exists THEN Raise(r, "status")
    ELSE LET modified     == Modified(r)
             stashMessage == IF message # "" THEN <<message>>
                             ELSE <<"WIP on ", currentBranch(r)>>
             entry        == [id |-> Len(r.stash), message |-> stashMessage,
                              files |-> [p \in modified |-> r.work[p]]]
             saved        == [r EXCEPT !.stash = <<entry>> \o r.stash]
         IN  IF modified = {} THEN Say(r, <<"No local changes to save">>)
             ELSE Say(RevertEach(saved, modified),
                      <<"Saved working directory and index state: ">> \o stashMessage)

\* index >= n for a JavaScript number index: false when index is NaN
AtLeast(index, n) == ~index.nan /\ index.val >= n

\* array[index] is an element of the array
Addresses(index, n) == ~index.nan /\ index.val >= 0 /\ index.val < n

\* the position array.splice(index, 1) starts at, 0-based: NaN counts as 0, a
\* negative index counts from the end
SpliceStart(index, n) ==
    IF index.nan THEN 0
    ELSE IF index.val < 0 THEN (IF n + index.val < 0 THEN 0 ELSE n + index.val)
    ELSE IF index.val > n THEN n ELSE index.val

\* array.splice(index, 1): what is left of the array and what was removed
Splice(s, index) ==
    LET k == SpliceStart(index, Len(s)) + 1
    IN  IF k > Len(s) THEN [rest |-> s, removed |-> <<>>]
        ELSE [rest |-> SubSeq(s, 1, k - 1) \o SubSeq(s, k + 1, Len(s)),
              removed |-> <<s[k]>>]

\* writeFile of each saved file, one after the other
RECURSIVE WriteEach(_, _)
WriteEach(r, files) ==
    IF DOMAIN files = {} THEN Ok(r)
    ELSE LET p == CHOOSE q \in DOMAIN files : TRUE
             w == writeFile(r, p, files[p])
         IN  IF w.threw THEN w ELSE WriteEach(w.repo, Drop(files, p))

\* the text stashApply and stashDrop return for an index they refuse
NotAValidReference == "error: stash@{index} is not a valid reference"

\* a stashApply that always takes the newest entry
stashApplyNewest(r, index) ==
    IF AtLeast(index, Len(r.stash)) THEN Say(r, <<NotAValidReference>>)
    ELSE IF ~Addresses(index, Len(r.stash))
    THEN Raise(r, "Cannot read properties of undefined")
    ELSE LET w == WriteEach(r, r.stash[1].files)
         IN  IF w.threw THEN Raise(w.repo, "writeFile")
             ELSE Say(w.repo, <<"On ", currentBranch(r), "Changes not staged for commit:">>)

\* stashApply: refuses an index that is >= the length of the stack; reading
\* the files of an entry that is not there throws
stashApply(r, index) ==
    IF AtLeast(index, Len(r.stash)) THEN Say(r, <<NotAValidReference>>)
    ELSE IF ~Addresses(index, Len(r.stash))
    THEN Raise(r, "Cannot read properties of undefined")
    ELSE LET w == WriteEach(r, r.stash[index.val + 1].files)
         IN  IF w.threw THEN Raise(w.repo, "writeFile")
             ELSE Say(w.repo, <<"On ", currentBranch(r), "Changes not staged for commit:">>)

\* a stashPop that leaves the entry on the stack
stashPopKeeps(r, index) == stashApply(r, index)

\* stashPop: stashApply, then the entry is spliced out unless the result
\* starts with 'error:'
stashPop(r, index) ==
    LET a == stashApply(r, index)
    IN  IF a.threw \/ a.out[1] = NotAValidReference THEN a
        ELSE Say([a.repo EXCEPT !.stash = Splice(a.repo.stash, index).rest], a.out)

\* stashDrop: the same refusal; the entry is spliced out, and reading the id of
\* an entry that was not there throws
stashDrop(r, index) ==
    IF AtLeast(index, Len(r.stash)) THEN Say(r, <<NotAValidReference>>)
    ELSE LET s == Splice(r.stash, index)
         IN  IF s.removed = <<>> THEN Raise(r, "Cannot read properties of undefined")
             ELSE Say([r EXCEPT !.stash = s.rest],
                      <<"Dropped stash@{id} ">> \o s.removed[1].message)

\* stashClear
stashClear(r) == Say([r EXCEPT !.stash = <<>>], <<"Cleared all stash entries">>)

\* the digits a sequence of characters starts with
RECURSIVE DigitPrefix(_)
DigitPrefix(s) ==
    IF s = <<>> \/ ~IsDigit(Head(s)) THEN <<>>
    ELSE <<Head(s)>> \o DigitPrefix(Tail(s))

\* replace(/stash@\{(\d+)\}/, '$1'): the first stash@{digits} becomes its digits
RECURSIVE StashRef(_)
StashRef(s) ==
    LET pre  == <<"s", "t", "a", "s", "h", "@", "{">>
        body == SubSeq(s, Len(pre) + 1, Len(s))
        ds   == DigitPrefix(body)
        rest == SubSeq(body, Len(ds) + 1, Len(body))
    IN  IF s = <<>> THEN <<>>
        ELSE IF StartsWith(s, pre) /\ ds # <<>> /\ rest # <<>> /\ Head(rest) = "}"
        THEN ds \o Tail(rest)
        ELSE <<Head(s)>> \o StashRef(Tail(s))

\* the index of case 'stash': args[1] ? parseInt(args[1].replace(...)) : 0
StashIndex(args) ==
    IF Arg(args, 1) = "" THEN Num(0) ELSE ParseInt(StashRef(Chars(args[2])))

\* case 'stash'
StashCase(r, args) ==
    IF Len(args) = 0 \/ args[1] = "push"
    THEN LET messageIdx == IndexOf(args, "-m")
         IN  stashSave(r, IF messageIdx >= 0 THEN Arg(args, messageIdx + 1) ELSE "")
    ELSE IF args[1] = "list"
    THEN IF r.stash = <<>> THEN Say(r, <<"">>) ELSE Say(r, <<"stash@{0}: ">> \o r.stash[1].message)
    ELSE IF args[1] = "apply" THEN stashApply(r, StashIndex(args))
    ELSE IF args[1] = "pop" THEN stashPop(r, StashIndex(args))
    ELSE IF args[1] = "drop" THEN stashDrop(r, StashIndex(args))
    ELSE IF args[1] = "clear" THEN stashClear(r)
    ELSE Say(r, <<"Unknown stash command">>)

\* the most recent commit that both oids reach; 0 when there is none
MergeBase(r, ours, theirs) ==
    LET common == Reach(r.commits, ours, {ours}) \cap Reach(r.commits, theirs, {theirs})
    IN  IF common = {} THEN 0 ELSE CHOOSE k \in common : \A j \in common : j <= k

\* a path's content in a tree, <<>> when the tree lacks the path
At(tree, p) == IF p \in DOMAIN tree THEN <<tree[p]>> ELSE <<>>

\* the paths that both sides changed since the base, each in its own way
MergeConflicts(base, ours, theirs) ==
    {p \in DOMAIN base \cup DOMAIN ours \cup DOMAIN theirs :
        /\ At(ours, p) # At(theirs, p)
        /\ At(ours, p) # At(base, p)
        /\ At(theirs, p) # At(base, p)}

\* the three-way merge of two trees without conflicts
MergeTrees(base, ours, theirs) ==
    LET pick(p) == IF At(ours, p) = At(base, p) THEN At(theirs, p) ELSE At(ours, p)
        paths   == {p \in DOMAIN base \cup DOMAIN ours \cup DOMAIN theirs : pick(p) # <<>>}
    IN  [p \in paths |-> pick(p)[1]]

\* merge: every failure comes back as text.  git.merge leaves the branch alone
\* when theirs is already merged, moves it forward when ours is the base, and
\* otherwise writes a commit with two parents unless the trees conflict; the
\* working directory and the index are not touched
merge(r, name) ==
    IF ~r.exists \/ currentBranch(r) \notin DOMAIN r.heads \/ name \notin DOMAIN r.heads
    THEN Say(r, <<"Error: ", name>>)
    ELSE LET ours   == r.heads[currentBranch(r)]
             theirs == r.heads[name]
             b      == MergeBase(r, ours, theirs)
             base   == IF b = 0 THEN NoFiles ELSE r.commits[b].tree
             ot     == r.commits[ours].tree
             tt     == r.commits[theirs].tree
             c      == [message |-> <<"Merge branch '", name, "' into ", currentBranch(r)>>,
                        parent |-> <<ours, theirs>>,
                        tree |-> MergeTrees(base, ot, tt)]
             made   == <<"Merge made by the 'recursive' strategy.">>
         IN  IF ours = theirs THEN Say(r, <<"Already up to date.">>)
             ELSE IF b = theirs THEN Say(r, made)
             ELSE IF b = ours
             THEN Say([r EXCEPT !.heads = Put(r.heads, currentBranch(r), theirs)], made)
             ELSE IF MergeConflicts(base, ot, tt) # {}
             THEN Say(r, <<"Merge conflict! (Simulated - in this learning environment, try resolving manually)">>)
             ELSE Say([r EXCEPT !.commits = Append(r.commits, c),
                                !.heads = Put(r.heads, currentBranch(r), Len(r.commits) + 1)],
                      made)

\* addRemote: the remote is set, with no branch
addRemote(r, name) == [r EXCEPT !.remotes = Put(r.remotes, name, NoHeads)]

\* listRemotes
listRemotes(r) == DOMAIN r.remotes

\* push: the remote's pointer for the branch is set to the branch's commit;
\* "" stands for no branch
push(r, remote, name) ==
    LET b == IF name # "" THEN name ELSE currentBranch(r)
    IN  IF remote \notin DOMAIN r.remotes
        THEN Say(r, <<"fatal: '", remote, "' does not appear to be a git repository">>)
        ELSE IF ~r.exists \/ b \notin DOMAIN r.heads THEN Say(r, <<"Error: ", b>>)
        ELSE Say([r EXCEPT !.remotes = Put(r.remotes, remote,
                                           Put(r.remotes[remote], b, r.heads[b]))],
                 <<"To https://github.com/ ", b, " -> ", b>>)

\* pull; "" stands for no remote and no branch
pull(r, remote, name) ==
    Say(r, <<"Already up to date. (Simulated pull from ",
             IF remote # "" THEN remote ELSE "origin", "/",
             IF name # "" THEN name ELSE currentBranch(r), ")">>)

\* fetch
fetch(r, remote) ==
    LET n == IF remote # "" THEN remote ELSE "origin"
    IN  IF n \notin DOMAIN r.remotes
        THEN Say(r, <<"fatal: '", n, "' does not appear to be a git repository">>)
        ELSE Say(r, <<"From https://github.com/ (Simulated fetch completed)">>)

\* cherryPick
cherryPick(r, commitOid) ==
    Say(r, <<"[Simulated] Cherry-picked commit ", commitOid>>)

\* rebase
rebase(r, upstream) ==
    Say(r, <<"[Simulated] Successfully rebased onto ", upstream>>)

\* a reset that moves the branch back one commit
resetMoves(r, mode, ref) ==
    IF mode = "hard" /\ Len(log(r)) > 1 /\ ref = "HEAD~1"
    THEN Say([r EXCEPT !.heads = Put(r.heads, r.head, log(r)[2])], <<"HEAD is now at ">>)
    ELSE Say(r, <<"[Simulated] Reset to ", ref, " (", mode, " mode)">>)

\* reset: nothing is reset; a hard reset to HEAD~1 with commits answers with
\* the commit before the current one
reset(r, mode, ref) ==
    IF mode = "hard" /\ Len(log(r)) > 0 /\ ref = "HEAD~1"
    THEN Say(r, <<"HEAD is now at ">>
                \o (IF Len(log(r)) > 1 THEN r.commits[log(r)[2]].message
                    ELSE <<"initial">>))
    ELSE Say(r, <<"[Simulated] Reset to ", ref, " (", mode, " mode)">>)

\* createPR
createPR(r, title, base) ==
    IF currentBranch(r) = base
    THEN Say(r, <<"Error: Cannot create PR from ", base, " to ", base>>)
    ELSE Say(r, <<"Pull Request Created!", title, currentBranch(r), base,
                  "This is a simulated PR in the learning environment.">>)

\* the tokens that start with '--'
Options == {"--hard", "--soft", "--mixed", "--oneline", "--title", "--body", "--base"}

\* args.find(a => !a.startsWith('--')), "" when there is none
RECURSIVE FirstPlain(_)
FirstPlain(args) ==
    IF args = <<>> THEN ""
    ELSE IF Head(args) \notin Options THEN Head(args) ELSE FirstPlain(Tail(args))

\* args.includes(x)
Includes(args, x) == IndexOf(args, x) >= 0

\* case 'reset'
ResetCase(r, args) ==
    reset(r,
          IF Includes(args, "--hard") THEN "hard"
          ELSE IF Includes(args, "--soft") THEN "soft" ELSE "mixed",
          IF FirstPlain(args) # "" THEN FirstPlain(args) ELSE "HEAD")

\* case 'remote'
RemoteCase(r, args) ==
    IF Len(args) = 0 \/ args[1] = "-v"
    THEN IF listRemotes(r) = {} THEN Say(r, <<"">>) ELSE Say(r, <<"(fetch)", "(push)">>)
    ELSE IF args[1] = "add" /\ Arg(args, 1) # "" /\ Arg(args, 2) # ""
    THEN Say(addRemote(r, args[2]), <<"">>)
    ELSE Say(r, <<"Unknown remote command">>)

\* case 'push'
PushCase(r, args) ==
    LET pushRemote == IF Includes(args, "-u") THEN Arg(args, IndexOf(args, "-u") + 1)
                      ELSE IF Arg(args, 0) # "" THEN args[1] ELSE "origin"
        last       == Arg(args, Len(args) - 1)
    IN  push(r, IF pushRemote # "" THEN pushRemote ELSE "origin",
             IF last # pushRemote THEN last ELSE "")

\* case 'gh'
GhCase(r, args) ==
    IF Arg(args, 0) = "pr" /\ Arg(args, 1) = "create"
    THEN LET titleIdx == IndexOf(args, "--title")
             baseIdx  == IndexOf(args, "--base")
         IN  createPR(r,
                      IF titleIdx >= 0 THEN Arg(args, titleIdx + 1) ELSE "New Pull Request",
                      IF baseIdx >= 0 /\ Arg(args, baseIdx + 1) # ""
                      THEN args[baseIdx + 2] ELSE "main")
    ELSE Say(r, <<"GitHub CLI command not recognized.">>)

\* ls: the names in /repo, or the text of its catch
ls(r, path) ==
    IF ~r.exists \/ (path # "" /\ path # ".")
    THEN Say(r, <<"ls: cannot access '", path, "': No such file or directory">>)
    ELSE Say(r, <<"">>)

\* cat: the content of the file, or the text of its catch
cat(r, filepath) ==
    IF ~r.exists \/ filepath \notin DOMAIN r.work
    THEN Say(r, <<"cat: ", filepath, ": No such file or directory">>)
    ELSE Say(r, <<r.work[filepath]>>)

\* touch: writeFile of the empty content, or the text of its catch
touch(r, filepath) ==
    LET w == writeFile(r, filepath, "")
    IN  IF w.threw THEN Say(r, <<"touch: cannot touch '", filepath, "'">>)
        ELSE Say(w.repo, <<"">>)

\* rm: unlink of the file, or the text of its catch
rm(r, filepath) ==
    IF ~r.exists \/ filepath \notin DOMAIN r.work
    THEN Say(r, <<"rm: cannot remove '", filepath, "'">>)
    ELSE Say([r EXCEPT !.work = Drop(r.work, filepath)], <<"">>)

\* echo: with a redirect the text is written to the file
echo(r, text, redirect) ==
    LET w == writeFile(r, redirect, text)
    IN  IF redirect = "" THEN Say(r, <<text>>)
        ELSE IF w.threw THEN Raise(r, redirect)
        ELSE Say(w.repo, <<"">>)

\* case 'echo': the joined arguments are matched against (.*?)\s*>\s*(.+);
\* the text is one token here, and so is the file
EchoCase(r, args) ==
    LET k == IndexOf(args, ">")
    IN  IF k >= 0 /\ Arg(args, k + 1) # ""
        THEN echo(r, Arg(args, k - 1), args[k + 2])
        ELSE Say(r, args)

\* a default case that starts the repository over
CommandNotFoundResets(r, gitCommand) ==
    Say(resetRepo(r), <<"Command not found: ", gitCommand, "Type 'help' for available commands.">>)

\* the default case of the switch
CommandNotFound(r, gitCommand) ==
    Say(r, <<"Command not found: ", gitCommand, "Type 'help' for available commands.">>)

\* the switch of gitService.executeCommand
RunCommand(r, gitCommand, args) ==
    CASE gitCommand = "init" -> Say(init(r), <<"Initialized empty Git repository">>)
      [] gitCommand = "add" ->
            IF Len(args) = 0 THEN Say(r, <<"Nothing specified, nothing added.">>)
            ELSE AddArgs(r, args, args)
      [] gitCommand = "commit" -> CommitCase(r, args)
      [] gitCommand = "branch" -> BranchCase(r, args)
      [] gitCommand = "checkout" -> CheckoutCase(r, args)
      [] gitCommand = "log" -> LogCase(r, args)
      [] gitCommand = "status" -> StatusCase(r, args)
      [] gitCommand = "stash" -> StashCase(r, args)
      [] gitCommand = "merge" ->
            IF Len(args) = 0 THEN Say(r, <<"Error: branch name required">>)
            ELSE merge(r, args[1])
      [] gitCommand = "rebase" ->
            IF Len(args) = 0 THEN Say(r, <<"Error: upstream branch required">>)
            ELSE rebase(r, args[1])
      [] gitCommand = "cherry-pick" ->
            IF Len(args) = 0 THEN Say(r, <<"Error: commit hash required">>)
            ELSE cherryPick(r, args[1])
      [] gitCommand = "reset" -> ResetCase(r, args)
      [] gitCommand = "remote" -> RemoteCase(r, args)
      [] gitCommand = "push" -> PushCase(r, args)
      [] gitCommand = "pull" -> pull(r, Arg(args, 0), Arg(args, 1))
      [] gitCommand = "fetch" -> fetch(r, Arg(args, 0))
      [] gitCommand = "gh" -> GhCase(r, args)
      [] gitCommand = "ls" -> ls(r, Arg(args, 0))
      [] gitCommand = "pwd" -> Say(r, <<"/repo">>)
      [] gitCommand = "cat" ->
            IF Len(args) = 0 THEN Say(r, <<"cat: missing file operand">>)
            ELSE cat(r, args[1])
      [] gitCommand = "mkdir" ->
            IF Len(args) = 0 THEN Say(r, <<"mkdir: missing operand">>)
            ELSE Say(r, <<"">>)
      [] gitCommand = "touch" ->
            IF Len(args) = 0 THEN Say(r, <<"touch: missing file operand">>)
            ELSE touch(r, args[1])
      [] gitCommand = "rm" ->
            IF Len(args) = 0 THEN Say(r, <<"rm: missing operand">>)
            ELSE rm(r, args[Len(args)])
      [] gitCommand = "echo" -> EchoCase(r, args)
      [] gitCommand = "help" -> Say(r, <<"GIT LEARNING TERMINAL - HELP">>)
      [] OTHER -> CommandNotFound(r, gitCommand)

\* what gitService.executeCommand's promise settles with: text it resolves
\* with, or a rejection
Resolve(r, out) == [repo |-> r, out |-> out, rejected |-> FALSE]

\* a try block without its catch: what is thrown inside rejects the promise
Uncaught(x) == [repo |-> x.repo, out |-> x.out, rejected |-> x.threw]

\* the catch of gitService.executeCommand: what is thrown inside the try block
\* comes back as the text `Error: ${error.message}`
Catch(x) ==
    IF x.threw THEN Resolve(x.repo, <<"Error: ">> \o x.out)
    ELSE Resolve(x.repo, x.out)

\* gitService.executeCommand on the tokens of command.trim().split(/\s+/):
\* the repository after the command and the text it returns
executeCommand(r, parts) ==
    LET isGit      == Len(parts) > 0 /\ parts[1] = "git"
        gitCommand == IF isGit THEN (IF Len(parts) > 1 THEN parts[2] ELSE "")
                      ELSE IF Len(parts) > 0 THEN parts[1] ELSE ""
        args       == IF isGit THEN SubSeq(parts, 3, Len(parts))
                      ELSE SubSeq(parts, 2, Len(parts))
    IN  IF isGit /\ gitCommand = ""
        THEN Resolve(r, <<"usage: git <command> [<args>]", "Type \"help\" for available commands.">>)
        ELSE IF gitCommand = ""
        THEN Resolve(r, <<"Type \"help\" for available commands.">>)
        ELSE Catch(RunCommand(r, gitCommand, args))

----------------------------------------------------------------------------
(* The level catalog *)

Level(id, setup, winCondition) ==
    [id |-> id, setup |-> setup, winCondition |-> winCondition]

Echo(content, path) == <<"echo", content, ">", path>>

levels == <<
    Level("intro-1",
          <<Echo("The glass is full of water.", "glass")>>,
          <<"h", "a", "s", "C", "o", "m", "m", "i", "t", "s", ":", "2">>),
    Level("intro-2",
          <<Echo("Hello World", "README.md"),
            <<"git", "add", "README.md">>,
            <<"git", "commit", "-m", "\"Initial", "commit\"">> >>,
          <<"h", "a", "s", "C", "o", "m", "m", "i", "t", "s", ":", "2">>),
    Level("branches-1",
          <<Echo("Main branch", "file.txt"),
            <<"git", "add", "file.txt">>,
            <<"git", "commit", "-m", "\"Initial", "commit\"">> >>,
          <<"h", "a", "s", "B", "r", "a", "n", "c", "h", "e", "s", ":", "2">>),
    Level("branches-2",
          <<Echo("Hello", "file.txt"),
            <<"git", "add", "file.txt">>,
            <<"git", "commit", "-m", "\"Initial", "commit\"">>,
            <<"git", "branch", "feature">> >>,
          <<"c", "u", "r", "r", "e", "n", "t", "B", "r", "a", "n", "c", "h", ":", "f", "e", "a", "t", "u", "r", "e">>),
    Level("merge-1",
          <<Echo("Main line", "main.txt"),
            <<"git", "add", "main.txt">>,
            <<"git", "commit", "-m", "\"Main", "commit\"">>,
            <<"git", "branch", "feature">>,
            <<"git", "checkout", "feature">>,
            Echo("Feature line", "feature.txt"),
            <<"git", "add", "feature.txt">>,
            <<"git", "commit", "-m", "\"Feature", "commit\"">> >>,
          <<"m", "e", "r", "g", "e", "d", ":", "f", "e", "a", "t", "u", "r", "e">>),
    Level("stash-1",
          <<Echo("Original", "main.txt"),
            <<"git", "add", "main.txt">>,
            <<"git", "commit", "-m", "\"Initial", "commit\"">> >>,
          <<"a", "l", "w", "a", "y", "s">>),
    Level("remote-1",
          <<Echo("Code to share", "app.js"),
            <<"git", "add", "app.js">>,
            <<"git", "commit", "-m", "\"Add", "application\"">> >>,
          <<"a", "l", "w", "a", "y", "s">>),
    Level("pr-1",
          <<Echo("Main app", "app.js"),
            <<"git", "add", "app.js">>,
            <<"git", "commit", "-m", "\"Initial", "app\"">> >>,
          <<"a", "l", "w", "a", "y", "s">>),
    Level("workflow-1",
          <<Echo("# My Project", "README.md"),
            <<"git", "add", "README.md">>,
            <<"git", "commit", "-m", "\"Initial", "commit\"">> >>,
          <<"a", "l", "w", "a", "y", "s">>),
    Level("sandbox",
          <<Echo("Welcome to the sandbox!", "README.md"),
            <<"git", "add", "README.md">>,
            <<"git", "commit", "-m", "\"Initial", "commit\"">> >>,
          <<"a", "l", "w", "a", "y", "s">>) >>

\* the catalog's levels are indexed from 0 in the store
LevelAt(i) == levels[i + 1]

NumLevels == Len(levels)


----------------------------------------------------------------------------
(* The store *)

\* gitService.currentBranch() as checkWinCondition awaits it: the branch name,
\* or a rejection when the repository cannot be read
CurrentBranchOrThrows(r) ==
    IF r.exists THEN [threw |-> FALSE, name |-> Chars(currentBranch(r))]
    ELSE [threw |-> TRUE, name |-> <<>>]

\* stands for the branch where the condition does not await it
NotAwaited == [threw |-> TRUE, name |-> <<>>]

\* the condition awaits gitService.currentBranch() before it returns
AwaitsBranch(condition) ==
    /\ condition # <<"a", "l", "w", "a", "y", "s">>
    /\ ~StartsWith(condition, <<"h", "a", "s", "C", "o", "m", "m", "i", "t", "s", ":">>)
    /\ ~StartsWith(condition, <<"h", "a", "s", "B", "r", "a", "n", "c", "h", "e", "s", ":">>)
    /\ StartsWith(condition, <<"c", "u", "r", "r", "e", "n", "t", "B", "r", "a", "n", "c", "h", ":">>)

\* a checkWinCondition whose last line returns true
checkWinConditionLenient(condition, cs, rs, current) ==
    IF condition = <<"a", "l", "w", "a", "y", "s">> THEN TRUE
    ELSE IF StartsWith(condition, <<"h", "a", "s", "C", "o", "m", "m", "i", "t", "s", ":">>)
    THEN GreaterEq(Len(cs), ParseInt(SplitSecond(condition)))
    ELSE IF StartsWith(condition, <<"h", "a", "s", "B", "r", "a", "n", "c", "h", "e", "s", ":">>)
    THEN LET branches == {x \in rs : x.type = "branch" \/ x.type = "HEAD"}
         IN  GreaterEq(Cardinality(branches), ParseInt(SplitSecond(condition)))
    ELSE IF StartsWith(condition, <<"c", "u", "r", "r", "e", "n", "t", "B", "r", "a", "n", "c", "h", ":">>)
    THEN ~current.threw /\ current.name = SplitSecond(condition)
    ELSE TRUE

\* checkWinCondition on the store's commits and refs and the awaited branch
checkWinCondition(condition, cs, rs, current) ==
    IF condition = <<"a", "l", "w", "a", "y", "s">> THEN TRUE
    ELSE IF StartsWith(condition, <<"h", "a", "s", "C", "o", "m", "m", "i", "t", "s", ":">>)
    THEN GreaterEq(Len(cs), ParseInt(SplitSecond(condition)))
    ELSE IF StartsWith(condition, <<"h", "a", "s", "B", "r", "a", "n", "c", "h", "e", "s", ":">>)
    THEN LET branches == {x \in rs : x.type = "branch" \/ x.type = "HEAD"}
         IN  GreaterEq(Cardinality(branches), ParseInt(SplitSecond(condition)))
    ELSE IF StartsWith(condition, <<"c", "u", "r", "r", "e", "n", "t", "B", "r", "a", "n", "c", "h", ":">>)
    THEN ~current.threw /\ current.name = SplitSecond(condition)
    ELSE FALSE

\* a handler in flight; out is the text a command handler holds while it
\* awaits refresh, <<>> before gitService.executeCommand has returned
Task(kind, pc, level, wasCompleted, i, phase, lvl, cmd) ==
    [kind |-> kind, pc |-> pc, level |-> level, wasCompleted |-> wasCompleted,
     i |-> i, phase |-> phase, lvl |-> lvl, cmd |-> cmd, out |-> <<>>]

InFlight == BagCardinality(tasks)

Quiescent == mounted /\ InFlight = 0

Spawn(t) == tasks' = tasks (+) SetToBag({t})

Become(t, u) == tasks' = (tasks (-) SetToBag({t})) (+) SetToBag({u})

Finish(t) == tasks' = tasks (-) SetToBag({t})

\* completeLevel
completeLevel ==
    /\ completedLevels' = completedLevels \cup {currentLevel}
    /\ isLevelComplete' = TRUE

\* a refresh that takes the level out of completedLevels when its condition
\* does not hold
ApplyWinForgets(isComplete) ==
    IF isComplete
    THEN IF ~isLevelComplete
         THEN completeLevel
         ELSE isLevelComplete' = TRUE /\ UNCHANGED completedLevels
    ELSE /\ isLevelComplete' = FALSE
         /\ completedLevels' = completedLevels \ {currentLevel}

\* refresh, lines 94-106: the evaluated condition is applied to the store
ApplyWin(isComplete) ==
    IF isComplete
    THEN IF ~isLevelComplete
         THEN completeLevel
         ELSE isLevelComplete' = TRUE /\ UNCHANGED completedLevels
    ELSE isLevelComplete' = FALSE /\ UNCHANGED completedLevels

\* a level entry whose last step sets the flag whether or not the level was
\* completed before
AfterRefreshAlwaysCarries(t, isComplete) ==
    CASE t.phase = 1 ->
            /\ ApplyWin(isComplete)
            /\ Become(t, [t EXCEPT !.pc = "fetch", !.phase = 2])
      [] t.phase = 2 ->
            /\ isLevelComplete' = TRUE
            /\ completedLevels' =
                 IF isComplete /\ ~isLevelComplete
                 THEN completedLevels \cup {currentLevel}
                 ELSE completedLevels
            /\ Finish(t)
      [] OTHER ->
            /\ ApplyWin(isComplete)
            /\ Finish(t)

\* what runs when a refresh has finished: initLevel's refresh is followed by
\* setCurrentLevel's (phase 1), setCurrentLevel's by the carry-over of an
\* earlier completion (phase 2), executeCommand's by nothing (phase 3)
AfterRefresh(t, isComplete) ==
    CASE t.phase = 1 ->
            /\ ApplyWin(isComplete)
            /\ Become(t, [t EXCEPT !.pc = "fetch", !.phase = 2])
      [] t.phase = 2 ->
            /\ IF t.wasCompleted
               THEN /\ isLevelComplete' = TRUE
                    /\ completedLevels' =
                         IF isComplete /\ ~isLevelComplete
                         THEN completedLevels \cup {currentLevel}
                         ELSE completedLevels
               ELSE ApplyWin(isComplete)
            /\ Finish(t)
      [] OTHER ->
            /\ ApplyWin(isComplete)
            /\ Finish(t)

\* a setCurrentLevel that initializes on every entry
setCurrentLevelAlwaysInits(level, forceReinit) ==
    /\ currentLevel' = level
    /\ isLevelComplete' = FALSE
    /\ Spawn(Task("level", "reset", level, level \in completedLevels, 1, 1, level, <<>>))
    /\ UNCHANGED <<repo, completedLevels, initializedLevels, commits, refs,
                   fileTree>>

\* setCurrentLevel, its synchronous part: the store is set and initLevel starts
setCurrentLevel(level, forceReinit) ==
    LET needsInit == level \notin initializedLevels \/ forceReinit
    IN  /\ currentLevel' = level
        /\ isLevelComplete' = FALSE
        /\ Spawn(Task("level", IF needsInit THEN "reset" ELSE "fetch", level,
                      level \in completedLevels, 1, 1, level, <<>>))
        /\ UNCHANGED <<repo, completedLevels, initializedLevels, commits, refs,
                       fileTree>>

\* App's mount effect
Mount ==
    /\ ~mounted
    /\ mounted' = TRUE
    /\ setCurrentLevel(0, FALSE)
    /\ lastOp' = "mount"

\* nextLevel without lines 66-68
nextLevelUngated ==
    /\ mounted
    /\ IF currentLevel < NumLevels - 1
       THEN /\ setCurrentLevel(currentLevel + 1, FALSE)
            /\ lastOp' = "nextLevel"
       ELSE /\ lastOp' = "nextLevel at end"
            /\ UNCHANGED <<repo, storeVars, tasks>>
    /\ UNCHANGED mounted

\* nextLevel
nextLevel ==
    /\ mounted
    /\ IF ~isLevelComplete
       THEN /\ lastOp' = "nextLevel refused"
            /\ UNCHANGED <<repo, storeVars, tasks>>
       ELSE IF currentLevel < NumLevels - 1
       THEN /\ setCurrentLevel(currentLevel + 1, FALSE)
            /\ lastOp' = "nextLevel"
       ELSE /\ lastOp' = "nextLevel at end"
            /\ UNCHANGED <<repo, storeVars, tasks>>
    /\ UNCHANGED mounted

\* previousLevel
previousLevel ==
    /\ mounted
    /\ IF currentLevel > 0
       THEN /\ setCurrentLevel(currentLevel - 1, FALSE)
            /\ lastOp' = "previousLevel"
       ELSE /\ lastOp' = "previousLevel at start"
            /\ UNCHANGED <<repo, storeVars, tasks>>
    /\ UNCHANGED mounted

\* a Progress list button that calls setCurrentLevel(idx) unconditionally
SelectLevelUngated(idx) ==
    /\ mounted
    /\ setCurrentLevel(idx, FALSE)
    /\ lastOp' = "select"
    /\ UNCHANGED mounted

\* the Progress list's button of level idx
SelectLevel(idx) ==
    /\ mounted
    /\ IF idx \in completedLevels \/ idx <= currentLevel
       THEN /\ setCurrentLevel(idx, FALSE)
            /\ lastOp' = "select"
       ELSE /\ lastOp' = "select refused"
            /\ UNCHANGED <<repo, storeVars, tasks>>
    /\ UNCHANGED mounted

\* resetLevel
resetLevel ==
    /\ mounted
    /\ setCurrentLevel(currentLevel, TRUE)
    /\ lastOp' = "resetLevel"
    /\ UNCHANGED mounted

\* the store's executeCommand, up to its first await
StartCommand(cmd) ==
    /\ mounted
    /\ Spawn(Task("command", "exec", currentLevel, FALSE, 1, 3, currentLevel, cmd))
    /\ lastOp' = "command"
    /\ UNCHANGED <<repo, storeVars, mounted>>

\* initLevel: resetRepo has run; the setup replay starts
ResetStep(t) ==
    /\ t.pc = "reset"
    /\ repo' = resetRepo(repo)
    /\ Become(t, [t EXCEPT !.pc = "setup", !.i = 1])
    /\ lastOp' = "resetRepo"
    /\ UNCHANGED <<storeVars, mounted>>

\* initLevel, the body of its for loop: an echo entry is written with
\* writeFile, which may throw; a git entry goes to gitService.executeCommand,
\* which returns its errors as text; any other entry is skipped
RunEntry(r, entry) ==
    IF entry[1] = "echo"
    THEN IF Len(entry) = 4 /\ entry[3] = ">"
         THEN writeFile(r, entry[4], entry[2])
         ELSE Ok(r)
    ELSE IF entry[1] = "git" THEN Ok(executeCommand(r, entry).repo)
    ELSE Ok(r)

\* initLevel's for loop from entry i on, when nothing else runs in between
RECURSIVE Replay(_, _, _)
Replay(r, setup, i) ==
    IF i > Len(setup) THEN Ok(r)
    ELSE LET w == RunEntry(r, setup[i])
         IN  IF w.threw THEN w ELSE Replay(w.repo, setup, i + 1)

\* a setup replay that stops after the first entry that succeeded
SetupStepOnce(t) ==
    /\ t.pc = "setup"
    /\ LET w == RunEntry(repo, LevelAt(t.level).setup[t.i])
       IN  /\ repo' = w.repo
           /\ IF w.threw
              THEN /\ Become(t, [t EXCEPT !.pc = "fetch", !.phase = 2])
                   /\ lastOp' = "setup failed"
                   /\ UNCHANGED initializedLevels
              ELSE /\ initializedLevels' = initializedLevels \cup {currentLevel}
                   /\ Become(t, [t EXCEPT !.pc = "fetch", !.phase = 1])
                   /\ lastOp' = "replayed"
    /\ UNCHANGED <<currentLevel, completedLevels, commits, refs, fileTree,
                   isLevelComplete, mounted>>

\* initLevel: one setup entry has run; after the last one the level is marked
\* initialized and refresh starts.  A writeFile that throws ends initLevel in
\* its catch, and setCurrentLevel's refresh follows.
SetupStep(t) ==
    /\ t.pc = "setup"
    /\ LET w    == RunEntry(repo, LevelAt(t.level).setup[t.i])
           last == t.i = Len(LevelAt(t.level).setup)
       IN  /\ repo' = w.repo
           /\ IF w.threw
              THEN /\ Become(t, [t EXCEPT !.pc = "fetch", !.phase = 2])
                   /\ lastOp' = "setup failed"
                   /\ UNCHANGED initializedLevels
              ELSE IF last
              THEN /\ initializedLevels' = initializedLevels \cup {currentLevel}
                   /\ Become(t, [t EXCEPT !.pc = "fetch", !.phase = 1])
                   /\ lastOp' = "replayed"
              ELSE /\ Become(t, [t EXCEPT !.i = t.i + 1])
                   /\ lastOp' = "setup"
                   /\ UNCHANGED initializedLevels
    /\ UNCHANGED <<currentLevel, completedLevels, commits, refs, fileTree,
                   isLevelComplete, mounted>>

\* the store's executeCommand: gitService.executeCommand has settled.  Its
\* text is held and refresh starts; a rejection goes to the catch, which
\* returns its own error text without a refresh
ExecStep(t) ==
    /\ t.pc = "exec"
    /\ LET x == executeCommand(repo, t.cmd)
       IN  /\ repo' = x.repo
           /\ IF x.rejected THEN Finish(t)
              ELSE Become(t, [t EXCEPT !.pc = "fetch", !.out = x.out])
    /\ lastOp' = "exec"
    /\ UNCHANGED <<storeVars, mounted>>

\* the fetches of a refresh whose underlying call throws: git.log without a
\* repository or without a commit at HEAD, git.listBranches and readdir
\* without /repo
Failing(r) ==
    (IF ~r.exists \/ HeadOid(r) = 0 THEN {"log"} ELSE {})
    \cup (IF ~r.exists THEN {"getRefs", "getFileTree"} ELSE {})

\* a Promise.all over fetches that let their errors through
PromiseAllRejects(r) ==
    [rejected |-> Failing(r) # {},
     commits |-> log(r), refs |-> getRefs(r), fileTree |-> getFileTree(r)]

\* refresh's Promise.all over log(), getRefs() and getFileTree(): each of them
\* catches its own error and resolves, so the whole never rejects
PromiseAll(r) ==
    [rejected |-> FALSE,
     commits |-> log(r), refs |-> getRefs(r), fileTree |-> getFileTree(r)]

\* what runs after a refresh whose catch block took the error: the store keeps
\* what it had and no condition is evaluated
AfterCaught(t) ==
    CASE t.phase = 1 ->
            /\ Become(t, [t EXCEPT !.pc = "fetch", !.phase = 2])
            /\ UNCHANGED <<completedLevels, isLevelComplete>>
      [] t.phase = 2 ->
            /\ isLevelComplete' = (isLevelComplete \/ t.wasCompleted)
            /\ UNCHANGED completedLevels
            /\ Finish(t)
      [] OTHER ->
            /\ UNCHANGED <<completedLevels, isLevelComplete>>
            /\ Finish(t)

\* refresh: log, getRefs and getFileTree have resolved; the store takes them
\* and the active level's condition is evaluated, or awaits currentBranch();
\* a rejection goes to the catch block instead
FetchStep(t) ==
    /\ t.pc = "fetch"
    /\ \E all \in {PromiseAll(repo)} :
           IF all.rejected
           THEN /\ AfterCaught(t)
                /\ lastOp' = "caught"
                /\ UNCHANGED <<commits, refs, fileTree>>
           ELSE /\ commits' = all.commits
                /\ refs' = all.refs
                /\ fileTree' = all.fileTree
                /\ LET condition == LevelAt(currentLevel).winCondition
                   IN  IF AwaitsBranch(condition)
                       THEN /\ Become(t, [t EXCEPT !.pc = "branch", !.lvl = currentLevel])
                            /\ lastOp' = "fetch"
                            /\ UNCHANGED <<completedLevels, isLevelComplete>>
                       ELSE /\ AfterRefresh(t, checkWinCondition(condition, commits', refs',
                                                                 NotAwaited))
                            /\ lastOp' = "refreshed"
    /\ UNCHANGED <<repo, currentLevel, initializedLevels, mounted>>

\* refresh: currentBranch() has resolved; the condition of the level that was
\* active when it was called is applied
BranchStep(t) ==
    /\ t.pc = "branch"
    /\ AfterRefresh(t, checkWinCondition(LevelAt(t.lvl).winCondition, commits, refs,
                                         CurrentBranchOrThrows(repo)))
    /\ lastOp' = "refreshed"
    /\ UNCHANGED <<repo, currentLevel, initializedLevels, commits, refs, fileTree,
                   mounted>>

----------------------------------------------------------------------------
(* The game *)

Init ==
    /\ repo = FreshFS
    /\ currentLevel = 0
    /\ completedLevels = {}
    /\ initializedLevels = {}
    /\ commits = <<>>
    /\ refs = {}
    /\ fileTree = NoFiles
    /\ isLevelComplete = FALSE
    /\ tasks = EmptyBag
    /\ mounted = FALSE
    /\ lastOp = "init"

\* the command lines the player types
UserCommands ==
    {<<"git", "init">>,
     <<"git", "commit", "-m", "Initial", "commit">>,
     <<"git", "branch", "feature">>,
     <<"git", "checkout", "feature">>,
     <<"git", "checkout", "main">>}

\* no handler is in flight
Idle == InFlight = 0

\* the step stays within maxCommits commits and maxLevel levels
Capped(maxCommits, maxLevel) ==
    /\ Len(repo'.commits) <= maxCommits
    /\ currentLevel' <= maxLevel

\* the player waits for a handler to finish before starting the next one
Next ==
    \/ Idle /\ Mount /\ Capped(MaxCommits, MaxLevel)
    \/ Idle /\ nextLevel /\ Capped(MaxCommits, MaxLevel)
    \/ Idle /\ previousLevel /\ Capped(MaxCommits, MaxLevel)
    \/ \E idx \in 0..(NumLevels - 1) :
          Idle /\ SelectLevel(idx) /\ Capped(MaxCommits, MaxLevel)
    \/ Idle /\ resetLevel /\ Capped(MaxCommits, MaxLevel)
    \/ \E cmd \in UserCommands :
          Idle /\ StartCommand(cmd) /\ Capped(MaxCommits, MaxLevel)
    \/ \E t \in BagToSet(tasks) : ResetStep(t) /\ Capped(MaxCommits, MaxLevel)
    \/ \E t \in BagToSet(tasks) : SetupStep(t) /\ Capped(MaxCommits, MaxLevel)
    \/ \E t \in BagToSet(tasks) : ExecStep(t) /\ Capped(MaxCommits, MaxLevel)
    \/ \E t \in BagToSet(tasks) : FetchStep(t) /\ Capped(MaxCommits, MaxLevel)
    \/ \E t \in BagToSet(tasks) : BranchStep(t) /\ Capped(MaxCommits, MaxLevel)

Spec == Init /\ [][Next]_vars

\* the command lines typed while other handlers are in flight
RaceCommands ==
    {<<"git", "init">>,
     <<"git", "commit", "-m", "Initial", "commit">>,
     <<"git", "branch", "feature">>}

\* a handler may start while fewer than MaxInFlight are in flight
Free == InFlight < MaxInFlight

\* the player does not wait: the Terminal and the navigation buttons start a
\* handler while earlier ones are still in flight.  No level up to RaceLevel
\* has a currentBranch: condition, so no refresh awaits currentBranch() here.
NextRace ==
    \/ Free /\ Mount /\ Capped(RaceCommits, RaceLevel)
    \/ Free /\ nextLevel /\ Capped(RaceCommits, RaceLevel)
    \/ Free /\ previousLevel /\ Capped(RaceCommits, RaceLevel)
    \/ \E idx \in 0..(NumLevels - 1) :
          Free /\ SelectLevel(idx) /\ Capped(RaceCommits, RaceLevel)
    \/ \E cmd \in RaceCommands :
          Free /\ StartCommand(cmd) /\ Capped(RaceCommits, RaceLevel)
    \/ \E t \in BagToSet(tasks) : ResetStep(t) /\ Capped(RaceCommits, RaceLevel)
    \/ \E t \in BagToSet(tasks) : SetupStep(t) /\ Capped(RaceCommits, RaceLevel)
    \/ \E t \in BagToSet(tasks) : ExecStep(t) /\ Capped(RaceCommits, RaceLevel)
    \/ \E t \in BagToSet(tasks) : FetchStep(t) /\ Capped(RaceCommits, RaceLevel)

SpecRace == Init /\ [][NextRace]_vars

\* the command lines of the long-history game
DeepCommands ==
    {<<"git", "init">>,
     <<"git", "add", "glass">>,
     <<"git", "commit", "-m", "Initial", "commit">>}

\* the step stays within DeepCommits commits and on the level it is on
Shallow ==
    /\ Len(repo'.commits) <= DeepCommits
    /\ currentLevel' = currentLevel

\* the player stays on the first level and commits again and again, one
\* handler at a time
NextDeep ==
    \/ Idle /\ Mount /\ Shallow
    \/ \E idx \in 0..(NumLevels - 1) : Idle /\ SelectLevel(idx) /\ Shallow
    \/ \E cmd \in DeepCommands : Idle /\ StartCommand(cmd) /\ Shallow
    \/ \E t \in BagToSet(tasks) : ResetStep(t) /\ Shallow
    \/ \E t \in BagToSet(tasks) : SetupStep(t) /\ Shallow
    \/ \E t \in BagToSet(tasks) : ExecStep(t) /\ Shallow
    \/ \E t \in BagToSet(tasks) : FetchStep(t) /\ Shallow

SpecDeep == Init /\ [][NextDeep]_vars

\* the command lines of the terminal session
ShellCommands ==
    {<<"git", "init">>,
     <<"git", "add", ".">>,
     <<"git", "commit", "-m", "Initial", "commit">>,
     <<"git", "commit", "-m", "\"\"">>,
     <<"git", "commit", "-m">>,
     <<"echo", "new", ">", "glass">>,
     <<"git", "stash">>,
     <<"git", "stash", "pop">>,
     <<"git", "stash", "pop", "-1">>,
     <<"git", "stash", "drop", "-1">>,
     <<"git", "stash", "apply", "stash@{1}">>,
     <<"git", "reset", "--hard", "HEAD~1">>,
     <<"git", "push">>,
     <<"foobar">>}

\* the step stays within ShellCommits commits and ShellStash stash entries, and
\* on the level it is on
Cabin ==
    /\ Len(repo'.commits) <= ShellCommits
    /\ Len(repo'.stash) <= ShellStash
    /\ currentLevel' = currentLevel

\* the player stays on the first level and works in the terminal, one handler
\* at a time
NextShell ==
    \/ Idle /\ Mount /\ Cabin
    \/ \E idx \in 0..(NumLevels - 1) : Idle /\ SelectLevel(idx) /\ Cabin
    \/ \E cmd \in ShellCommands : Idle /\ StartCommand(cmd) /\ Cabin
    \/ \E t \in BagToSet(tasks) : ResetStep(t) /\ Cabin
    \/ \E t \in BagToSet(tasks) : SetupStep(t) /\ Cabin
    \/ \E t \in BagToSet(tasks) : ExecStep(t) /\ Cabin
    \/ \E t \in BagToSet(tasks) : FetchStep(t) /\ Cabin

SpecShell == Init /\ [][NextShell]_vars

\* the command lines of a session that moves HEAD between branches and commits
HeadCommands ==
    {<<"git", "init">>,
     <<"echo", "new", ">", "glass">>,
     <<"git", "add", ".">>,
     <<"git", "commit", "-m", "Initial", "commit">>,
     <<"git", "branch", "feature">>,
     <<"git", "checkout", "feature">>,
     <<"git", "checkout", "main">>,
     <<"git", "checkout", "oid1">>,
     <<"git", "merge", "feature">>}

\* the step stays within HeadCommits commits and on the level it is on
Deck ==
    /\ Len(repo'.commits) <= HeadCommits
    /\ currentLevel' = currentLevel

\* the player stays on the first level and moves HEAD around, one handler at a
\* time
NextHead ==
    \/ Idle /\ Mount /\ Deck
    \/ \E idx \in 0..(NumLevels - 1) : Idle /\ SelectLevel(idx) /\ Deck
    \/ \E cmd \in HeadCommands : Idle /\ StartCommand(cmd) /\ Deck
    \/ \E t \in BagToSet(tasks) : ResetStep(t) /\ Deck
    \/ \E t \in BagToSet(tasks) : SetupStep(t) /\ Deck
    \/ \E t \in BagToSet(tasks) : ExecStep(t) /\ Deck
    \/ \E t \in BagToSet(tasks) : FetchStep(t) /\ Deck

SpecHead == Init /\ [][NextHead]_vars

\* the command lines a player who works through the course types for a win
\* condition: a repository first, then what the condition asks for
CourseCommands(condition) ==
    IF ~repo.exists THEN {<<"git", "init">>}
    ELSE IF StartsWith(condition, <<"h", "a", "s", "C", "o", "m", "m", "i", "t", "s", ":">>)
    THEN {<<"git", "commit", "-m", "Initial", "commit">>,
          <<"git", "commit", "-m", "Add", "glass">>}
    ELSE IF StartsWith(condition, <<"h", "a", "s", "B", "r", "a", "n", "c", "h", "e", "s", ":">>)
    THEN {<<"git", "branch", "feature">>}
    ELSE IF StartsWith(condition, <<"c", "u", "r", "r", "e", "n", "t", "B", "r", "a", "n", "c", "h", ":">>)
    THEN {<<"git", "checkout", "feature">>}
    ELSE IF StartsWith(condition, <<"m", "e", "r", "g", "e", "d", ":">>)
    THEN {<<"git", "checkout", "main">>, <<"git", "merge", "feature">>}
    ELSE {<<"git", "status">>}

\* the player works through the course, one handler at a time: Next Level as
\* soon as the level is complete, and otherwise a command for its condition
NextCourse ==
    \/ Idle /\ Mount
    \/ Idle /\ isLevelComplete /\ currentLevel < NumLevels - 1 /\ nextLevel
    \/ \E cmd \in CourseCommands(LevelAt(currentLevel).winCondition) :
          Idle /\ ~isLevelComplete /\ StartCommand(cmd)
    \/ \E t \in BagToSet(tasks) : ResetStep(t)
    \/ \E t \in BagToSet(tasks) : SetupStep(t)
    \/ \E t \in BagToSet(tasks) : ExecStep(t)
    \/ \E t \in BagToSet(tasks) : FetchStep(t)
    \/ \E t \in BagToSet(tasks) : BranchStep(t)

\* the player and the handlers keep going
SpecCourse == Init /\ [][NextCourse]_vars /\ WF_vars(NextCourse)

\* a refresh is waiting for currentBranch() and nothing else is in flight
AwaitingBranch ==
    /\ InFlight = 1
    /\ \E t \in BagToSet(tasks) : t.pc = "branch"

\* the player waits for every handler, except that Next Level may be pressed
\* while a refresh is waiting for currentBranch()
NextSwitch ==
    \/ Idle /\ Mount /\ Capped(SwitchCommits, SwitchLevel)
    \/ (Idle \/ AwaitingBranch) /\ nextLevel /\ Capped(SwitchCommits, SwitchLevel)
    \/ \E cmd \in UserCommands :
          Idle /\ StartCommand(cmd) /\ Capped(SwitchCommits, SwitchLevel)
    \/ \E t \in BagToSet(tasks) : ResetStep(t) /\ Capped(SwitchCommits, SwitchLevel)
    \/ \E t \in BagToSet(tasks) : SetupStep(t) /\ Capped(SwitchCommits, SwitchLevel)
    \/ \E t \in BagToSet(tasks) : ExecStep(t) /\ Capped(SwitchCommits, SwitchLevel)
    \/ \E t \in BagToSet(tasks) : FetchStep(t) /\ Capped(SwitchCommits, SwitchLevel)
    \/ \E t \in BagToSet(tasks) : BranchStep(t) /\ Capped(SwitchCommits, SwitchLevel)

SpecSwitch == Init /\ [][NextSwitch]_vars

----------------------------------------------------------------------------
(* Properties *)

\* the active level's win condition on the store's commits and refs and the
\* repository's current branch
WinHolds ==
    checkWinCondition(LevelAt(currentLevel).winCondition, commits, refs,
                      CurrentBranchOrThrows(repo))

\* C1: a nextLevel() call made while isLevelComplete is false changes neither
\* currentLevel nor completedLevels nor the repository, however often it is
\* repeated and whatever else is in flight
NextLevelGated ==
    [][(nextLevel /\ ~isLevelComplete)
         => UNCHANGED <<currentLevel, completedLevels, repo>>]_vars

\* nextLevel() was called on a level that is not complete and did nothing
NextLevelRefused ==
    /\ lastOp = "nextLevel refused"
    /\ ~isLevelComplete
    /\ currentLevel < NumLevels - 1

\* C2: no step of any handler (command, refresh, level entry, level reset,
\* navigation) removes an index from completedLevels
CompletedOnlyGrows == [][completedLevels \subseteq completedLevels']_vars

\* a completed level whose win condition has stopped holding is still in
\* completedLevels after the refresh that found so
CompletedKeptAfterLoss ==
    /\ Quiescent
    /\ lastOp = "refreshed"
    /\ currentLevel \in completedLevels
    /\ ~WinHolds
    /\ ~isLevelComplete

RefreshCompletes ==
    lastOp = "refreshed" =>
        (WinHolds => (currentLevel \in completedLevels /\ isLevelComplete))

\* what the player observes of a repository: the messages of the commit log,
\* the branch list, the current branch and the working files
Observable(r) ==
    [log      |-> [i \in 1..Len(log(r)) |-> r.commits[log(r)[i]].message],
     branches |-> listBranches(r),
     current  |-> currentBranch(r),
     files    |-> getFileTree(r)]

\* C5: right after resetRepo() the commit log is empty, there is no branch but
\* the default one and no working file, and a second resetRepo() would leave
\* the same observable state
ResetClears ==
    lastOp = "resetRepo" =>
        /\ log(repo) = <<>>
        /\ listBranches(repo) \subseteq {defaultBranch}
        /\ getFileTree(repo) = NoFiles
        /\ Observable(resetRepo(repo)) = Observable(repo)

\* the repository a level's setup list gives when replayed on an empty one
SetupAlone(level) == Replay(init(FreshFS), LevelAt(level).setup, 1).repo

\* C6: right after the setup replay of a level entry, the observable
\* repository state is the one the level's setup list gives by itself
EntryDetermined ==
    \A t \in BagToSet(tasks) :
        (lastOp = "replayed" /\ t.kind = "level" /\ t.pc = "fetch" /\ t.phase = 1)
            => Observable(repo) = Observable(SetupAlone(t.level))

\* checkWinCondition of a condition string in the present state
Holds(condition) ==
    checkWinCondition(condition, commits, refs, CurrentBranchOrThrows(repo))

\* condition strings an author may write, right and wrong
Conditions ==
    {<<"a", "l", "w", "a", "y", "s">>,
     <<"A", "l", "w", "a", "y", "s">>,
     <<"a", "l", "w", "a", "y", "s", " ">>,
     <<"a", "l", "w", "a", "y">>,
     <<>>,
     <<"t", "r", "u", "e">>,
     <<"h", "a", "s", "C", "o", "m", "m", "i", "t", "s", ":", "2">>,
     <<"h", "a", "s", "C", "o", "m", "m", "i", "t", "s", ":", "0">>,
     <<"h", "a", "s", "C", "o", "m", "m", "i", "t", ":", "0">>,
     <<"h", "a", "s", "c", "o", "m", "m", "i", "t", "s", ":", "0">>,
     <<" ", "h", "a", "s", "C", "o", "m", "m", "i", "t", "s", ":", "0">>,
     <<"h", "a", "s", "C", "o", "m", "m", "i", "t", "s", "0">>,
     <<"h", "a", "s", "B", "r", "a", "n", "c", "h", "e", "s", ":", "2">>,
     <<"h", "a", "s", "B", "r", "a", "n", "c", "h", ":", "0">>,
     <<"c", "u", "r", "r", "e", "n", "t", "B", "r", "a", "n", "c", "h", ":", "m", "a", "i", "n">>,
     <<"c", "u", "r", "r", "e", "n", "t", "b", "r", "a", "n", "c", "h", ":", "m", "a", "i", "n">>,
     <<"b", "r", "a", "n", "c", "h", ":", "m", "a", "i", "n">>,
     <<"m", "e", "r", "g", "e", "d", ":", "f", "e", "a", "t", "u", "r", "e">>,
     <<"m", "e", "r", "g", "e", "d", ":", "m", "a", "i", "n">>}

\* those that are not 'always' and start with none of the three prefixes
Unrecognized ==
    {c \in Conditions :
        /\ c # <<"a", "l", "w", "a", "y", "s">>
        /\ ~StartsWith(c, <<"h", "a", "s", "C", "o", "m", "m", "i", "t", "s", ":">>)
        /\ ~StartsWith(c, <<"h", "a", "s", "B", "r", "a", "n", "c", "h", "e", "s", ":">>)
        /\ ~StartsWith(c, <<"c", "u", "r", "r", "e", "n", "t", "B", "r", "a", "n", "c", "h", ":">>)}

\* C7: a winCondition that is not 'always' and starts with none of
\* 'hasCommits:', 'hasBranches:', 'currentBranch:' evaluates to false in every
\* repository state
UnrecognizedNeverWins == \A c \in Unrecognized : ~Holds(c)

\* a refreshed state with two commits and the branches main and feature, main
\* current: the recognized conditions hold, the catalog's 'merged:feature' and
\* the misspelt ones do not
UnrecognizedRefused ==
    /\ lastOp = "refreshed"
    /\ LevelAt(4).winCondition \in Unrecognized
    /\ listBranches(repo) = {"main", "feature"}
    /\ Holds(<<"h", "a", "s", "C", "o", "m", "m", "i", "t", "s", ":", "2">>)
    /\ Holds(<<"h", "a", "s", "B", "r", "a", "n", "c", "h", "e", "s", ":", "2">>)
    /\ Holds(<<"c", "u", "r", "r", "e", "n", "t", "B", "r", "a", "n", "c", "h", ":", "m", "a", "i", "n">>)
    /\ ~Holds(LevelAt(4).winCondition)
    /\ ~Holds(<<"h", "a", "s", "C", "o", "m", "m", "i", "t", ":", "0">>)

\* the decimal digits of a natural number
RECURSIVE ToChars(_)
ToChars(n) ==
    IF n < 10 THEN <<Digits[n + 1]>>
    ELSE ToChars(n \div 10) \o <<Digits[(n % 10) + 1]>>

\* the condition string 'hasCommits:n'
HasCommits(n) ==
    <<"h", "a", "s", "C", "o", "m", "m", "i", "t", "s", ":">> \o ToChars(n)

\* the numbers of commits a condition may ask for
CommitCounts == {0, 1, 2, 3, LogDepth - 1, LogDepth, LogDepth + 1}

\* C8: right after a refresh, hasCommits:N holds iff at least N commits are
\* reachable from the current position
HasCommitsCountsReachable ==
    lastOp = "refreshed" =>
        \A n \in CommitCounts :
            Holds(HasCommits(n)) <=> (Cardinality(Reachable(repo)) >= n)

\* the condition string 'currentBranch:name'
CurrentBranchIs(name) ==
    <<"c", "u", "r", "r", "e", "n", "t", "B", "r", "a", "n", "c", "h", ":">> \o name

\* branch names a condition may ask for
BranchNames ==
    {<<"m", "a", "i", "n">>,
     <<"m", "a", "i">>,
     <<"m", "a", "i", "n", "n">>,
     <<"M", "a", "i", "n">>,
     <<"m", "a", "i", "n", " ">>,
     <<"f", "e", "a", "t", "u", "r", "e">>,
     <<"f", "e", "a", "t", "u", "r">>,
     <<"f", "e", "a", "t", "u", "r", "e", "s">>,
     <<"F", "e", "a", "t", "u", "r", "e">>,
     <<>>}

\* the name of the branch HEAD is attached to, as characters
ActiveBranch == Chars(repo.head)

SelectionGated ==
    [][\A idx \in 0..(NumLevels - 1) :
          (SelectLevel(idx) /\ ~(idx \in completedLevels \/ idx <= currentLevel))
              => UNCHANGED <<currentLevel, repo>>]_vars

\* a level ahead of the current one that is not completed was selected, and
\* the selection did nothing
SelectionRefused ==
    /\ lastOp = "select refused"
    /\ \E idx \in 0..(NumLevels - 1) : idx \notin completedLevels /\ idx > currentLevel
    /\ completedLevels # {}

\* number of handlers of a kind in flight
InFlightOf(kind) ==
    LET ts == {t \in BagToSet(tasks) : t.kind = kind}
    IN  BagCardinality([t \in ts |-> CopiesIn(t, tasks)])

\* C11: at most one command's execute-then-refresh sequence is in flight
OneCommandAtATime == InFlightOf("command") <= 1

\* a level entry has started its resetRepo and not yet finished its setup replay
InReplay(t) == t.kind = "level" /\ t.pc \in {"reset", "setup"}

\* C12: while a level entry is between the start of its resetRepo and the end
\* of its setup replay, no command is executed against the repository and no
\* other level entry is in flight
ReplayUninterrupted ==
    (\E t \in BagToSet(tasks) : InReplay(t)) =>
        /\ lastOp # "exec"
        /\ InFlightOf("level") = 1

\* command lines of every case of the switch, with and without their
\* arguments, among them lines whose adapter call throws
CommandLines ==
    ShellCommands \cup
    {<<"git">>,
     <<"git", "add">>, <<"git", "add", "glass">>, <<"git", "add", "nofile">>,
     <<"git", "commit">>, <<"git", "commit", "-m", "''">>,
     <<"git", "branch">>, <<"git", "branch", "feature">>, <<"git", "branch", "main">>,
     <<"git", "branch", "-d", "feature">>,
     <<"git", "checkout">>, <<"git", "checkout", "nowhere">>,
     <<"git", "checkout", "-b", "main">>,
     <<"git", "log">>, <<"git", "status">>,
     <<"git", "stash", "push", "-m", "wip">>, <<"git", "stash", "list">>,
     <<"git", "stash", "apply">>, <<"git", "stash", "apply", "-1">>,
     <<"git", "stash", "apply", "abc">>, <<"git", "stash", "apply", "2">>,
     <<"git", "stash", "pop", "1">>, <<"git", "stash", "pop", "2">>,
     <<"git", "stash", "pop", "abc">>, <<"git", "stash", "pop", "stash@{1}">>,
     <<"git", "stash", "drop">>, <<"git", "stash", "drop", "1">>,
     <<"git", "stash", "drop", "2">>, <<"git", "stash", "drop", "abc">>,
     <<"git", "stash", "clear">>, <<"git", "stash", "save">>,
     <<"git", "merge">>, <<"git", "merge", "feature">>,
     <<"git", "rebase">>, <<"git", "rebase", "main">>,
     <<"git", "cherry-pick">>, <<"git", "cherry-pick", "abc">>,
     <<"git", "reset">>, <<"git", "reset", "--soft", "HEAD~1">>,
     <<"git", "reset", "--hard">>, <<"git", "reset", "--hard", "main">>,
     <<"git", "remote">>, <<"git", "remote", "add", "upstream", "url">>,
     <<"git", "remote", "rename">>,
     <<"git", "push", "origin", "main">>, <<"git", "push", "nowhere">>,
     <<"git", "push", "-u", "origin", "feature">>,
     <<"git", "pull">>, <<"git", "pull", "origin", "main">>,
     <<"git", "fetch">>, <<"git", "fetch", "nowhere">>,
     <<"gh", "pr", "create">>, <<"gh", "pr", "create", "--base", "develop">>,
     <<"gh", "issue">>,
     <<"ls">>, <<"pwd">>, <<"cat">>, <<"cat", "glass">>, <<"mkdir", "src">>,
     <<"touch", "notes">>, <<"rm", "glass">>, <<"rm", "nofile">>,
     <<"echo", "hello">>, <<"help">>,
     <<"git", "foobar">>, <<"commit">>}

\* C13: whatever line is submitted, gitService.executeCommand resolves with a
\* text and never rejects, and a command handler that is past it holds that text
AlwaysAnswers ==
    /\ \A cmd \in CommandLines :
          LET x == executeCommand(repo, cmd)
          IN  ~x.rejected /\ x.out # <<>>
    /\ \A t \in BagToSet(tasks) :
          t.kind = "command" /\ t.pc # "exec" => t.out # <<>>

\* an error thrown inside the adapter came back to the handler as text
ThrowBecameText ==
    /\ lastOp = "exec"
    /\ \E t \in BagToSet(tasks) :
          /\ t.cmd = <<"git", "stash", "pop", "-1">>
          /\ t.pc = "fetch"
          /\ t.out[1] = "Error: "

\* commit lines without -m, or with a -m that carries no message text
MessagelessCommits ==
    {<<"git", "commit">>,
     <<"git", "commit", "-m">>,
     <<"git", "commit", "-m", "\"\"">>,
     <<"git", "commit", "-m", "''">>}

\* C14: in a repository, a commit line whose -m is missing or carries no
\* message text is answered with the message-required error and changes
\* nothing: no commit, no branch pointer, no staging
CommitNeedsMessage ==
    repo.exists =>
        \A cmd \in MessagelessCommits :
            LET x == executeCommand(repo, cmd)
            IN  /\ x.out = <<"Error: commit message required (-m flag)">>
                /\ x.repo = repo

\* lines whose command word is none of the switch's cases
UnknownCommands ==
    {<<"foobar">>, <<"git", "foobar">>, <<"gti", "status">>, <<"git", "comit", "-m", "x">>,
     <<"clear", "all">>, <<"undefined">>}

\* C15: a line whose command word is not recognized is answered with the
\* command-not-found text and leaves the commits, the branches, the files, the
\* index and the stash stack as they were
UnknownChangesNothing ==
    \A cmd \in UnknownCommands :
        LET x == executeCommand(repo, cmd)
        IN  /\ x.out[1] = "Command not found: "
            /\ x.repo = repo
            /\ log(x.repo) = log(repo)
            /\ getRefs(x.repo) = getRefs(repo)
            /\ getFileTree(x.repo) = getFileTree(repo)

\* an unknown command has just been answered in a repository with a commit, a
\* file and a stash entry
UnknownAnswered ==
    /\ lastOp = "exec"
    /\ \E t \in BagToSet(tasks) :
          /\ t.cmd = <<"foobar">>
          /\ t.pc = "fetch"
          /\ t.out[1] = "Command not found: "
    /\ log(repo) # <<>>
    /\ getFileTree(repo) # NoFiles
    /\ repo.stash # <<>>

\* C16: after git add . every path that the status classified as untracked or
\* as modified is staged with the content the working directory has
AddAllStagesEveryChange ==
    repo.exists =>
        LET x == executeCommand(repo, <<"git", "add", ".">>)
        IN  \A p \in Untracked(repo) \cup Modified(repo) :
                /\ p \in DOMAIN x.repo.index
                /\ x.repo.index[p] = repo.work[p]

\* lines of the commands that only describe what they would do
SimulatedCommands ==
    {<<"git", "rebase", "main">>, <<"git", "cherry-pick", "abc">>,
     <<"git", "reset">>, <<"git", "reset", "--soft", "HEAD~1">>,
     <<"git", "reset", "--hard">>, <<"git", "reset", "--hard", "HEAD~1">>,
     <<"git", "reset", "--hard", "main">>,
     <<"git", "pull">>, <<"git", "pull", "origin", "main">>,
     <<"git", "fetch">>, <<"git", "fetch", "nowhere">>,
     <<"gh", "pr", "create">>, <<"gh", "pr", "create", "--base", "develop">>,
     <<"git", "branch", "-d", "feature">>, <<"git", "branch", "-d", "main">>}

\* lines of push
PushCommands ==
    {<<"git", "push">>, <<"git", "push", "origin", "main">>,
     <<"git", "push", "-u", "origin", "feature">>, <<"git", "push", "nowhere">>}

SimulatedMarks ==
    {"[Simulated] Cherry-picked commit ", "[Simulated] Successfully rebased onto ",
     "[Simulated] Reset to ", "Already up to date. (Simulated pull from ",
     "From https://github.com/ (Simulated fetch completed)",
     "This is a simulated PR in the learning environment.", " (simulated)"}

MarkedSimulated(out) == \E i \in DOMAIN out : out[i] \in SimulatedMarks

\* the responses that report a failure
Refusal(out) ==
    out[1] \in {"Error: ", "fatal: '", "Error: upstream branch required",
                "Error: commit hash required", "Error: Cannot create PR from "}

\* C18: a response of reset, rebase, cherry-pick, push, pull, fetch or PR
\* creation that is not a failure and came with no change that log or status
\* shows is marked as simulated
UnchangedIsMarked ==
    \A cmd \in (SimulatedCommands \cup PushCommands)
                \ {<<"git", "branch", "-d", "feature">>, <<"git", "branch", "-d", "main">>} :
        LET x == executeCommand(repo, cmd)
        IN  (/\ log(x.repo) = log(repo)
             /\ status(x.repo) = status(repo)
             /\ ~Refusal(x.out))
            => MarkedSimulated(x.out)

\* index arguments of the stash commands, all of them integers
IndexTokens == {"0", "1", "2", "-1", "stash@{0}", "stash@{1}"}

\* C19: stash apply, pop and drop with an index that addresses no entry of the
\* stack answer that it is not a valid reference and leave the stack and the
\* working files as they were
BadIndexRefused ==
    \A op \in {"apply", "pop", "drop"} : \A tok \in IndexTokens :
        LET x == executeCommand(repo, <<"git", "stash", op, tok>>)
        IN  ~Addresses(StashIndex(<<op, tok>>), Len(repo.stash)) =>
                /\ x.out = <<NotAValidReference>>
                /\ x.repo.stash = repo.stash
                /\ x.repo.work = repo.work

\* lines that stash the changes
StashLines == {<<"git", "stash">>, <<"git", "stash", "push">>,
               <<"git", "stash", "push", "-m", "wip">>}

\* lines that pop the newest entry
PopLines == {<<"git", "stash", "pop">>, <<"git", "stash", "pop", "0">>,
             <<"git", "stash", "pop", "stash@{0}">>}

\* C20: a stash that saved something, followed at once by a pop, gives every
\* stashed path the content it had before the stash and leaves the stack as
\* it was before the stash
StashPopRestores ==
    \A sl \in StashLines : \A pl \in PopLines :
        LET s == executeCommand(repo, sl)
            p == executeCommand(s.repo, pl)
        IN  s.out[1] = "Saved working directory and index state: " =>
                /\ Len(s.repo.stash) = Len(repo.stash) + 1
                /\ DOMAIN s.repo.stash[1].files = Modified(repo)
                /\ \A path \in Modified(repo) :
                      /\ path \in DOMAIN p.repo.work
                      /\ p.repo.work[path] = repo.work[path]
                /\ p.repo.stash = repo.stash

\* a pop has just put back a change that the stash had reverted to the
\* committed content, and the stack is empty again
PoppedBack ==
    /\ lastOp = "exec"
    /\ \E t \in BagToSet(tasks) :
          /\ t.cmd = <<"git", "stash", "pop">>
          /\ t.pc = "fetch"
          /\ t.out[1] = "On "
    /\ "glass" \in DOMAIN HeadTree(repo)
    /\ repo.index = HeadTree(repo)
    /\ repo.work["glass"] = "new"
    /\ HeadTree(repo)["glass"] # "new"
    /\ repo.stash = <<>>

\* a sequence without its k-th element, the others in their order
Without(s, k) == [j \in 1..(Len(s) - 1) |-> IF j < k THEN s[j] ELSE s[j + 1]]

\* the working files with the files of a stash entry written over them
Restored(work, files) ==
    [p \in DOMAIN work \cup DOMAIN files |->
        IF p \in DOMAIN files THEN files[p] ELSE work[p]]

\* index arguments that address the first and the second entry
ValidTokens == {<<"0", 1>>, <<"1", 2>>, <<"stash@{0}", 1>>, <<"stash@{1}", 2>>}

----------------------------------------------------------------------------
(* The commit graph *)

\* log(): the loaded commits as the graph receives them, most recent first
GitCommits(r) ==
    LET l == log(r)
    IN  [i \in DOMAIN l |->
            [oid |-> l[i], message |-> r.commits[l[i]].message,
             parent |-> r.commits[l[i]].parent]]

\* GitGraph, the nodes: one per loaded commit, in the order of the list, with
\* the refs that point at it
GraphNodes(cs, rs) ==
    [i \in DOMAIN cs |->
        [oid |-> cs[i].oid, message |-> cs[i].message, row |-> i - 1,
         refs |-> {x \in rs : x.oid = cs[i].oid}]]

\* the keys of commitMap
CommitMap(cs, rs) ==
    LET nodes == GraphNodes(cs, rs)
    IN  {nodes[i].oid : i \in DOMAIN cs}

\* links built for every parent, in the map or not
GraphLinksUnfiltered(cs, rs) ==
    UNION {{[source |-> cs[i].oid, target |-> cs[i].parent[j]] :
              j \in DOMAIN cs[i].parent} :
           i \in DOMAIN cs}

\* GitGraph, the links: one per parent of a loaded commit that commitMap has
GraphLinks(cs, rs) ==
    LET keys == CommitMap(cs, rs)
    IN  UNION {{[source |-> cs[i].oid, target |-> cs[i].parent[j]] :
                  j \in {k \in DOMAIN cs[i].parent : cs[i].parent[k] \in keys}} :
               i \in DOMAIN cs}

\* C22: every link of the graph joins two nodes of the node set built from
\* the same commit list; a parent outside the loaded list gets no link
LinksJoinNodes ==
    LET cs    == GitCommits(repo)
        rs    == getRefs(repo)
        nodes == GraphNodes(cs, rs)
        oids  == {nodes[i].oid : i \in DOMAIN nodes}
    IN  \A l \in GraphLinks(cs, rs) : l.source \in oids /\ l.target \in oids

\* the log is cut at its depth: the oldest loaded commit has a parent that is
\* not loaded, and every other loaded commit has its link
ParentOutsideWindow ==
    LET cs == GitCommits(repo)
        rs == getRefs(repo)
    IN  /\ Len(cs) = LogDepth
        /\ cs[Len(cs)].parent # <<>>
        /\ cs[Len(cs)].parent[1] \notin CommitMap(cs, rs)
        /\ Cardinality(GraphLinks(cs, rs)) = LogDepth - 1

\* C23: every command that creates a commit gives it the position before it
\* as a parent and makes the log one entry longer
CommitGrowsLog ==
    [][\A t \in BagToSet(tasks) :
          (ExecStep(t) /\ Len(repo'.commits) = Len(repo.commits) + 1) =>
              /\ HeadOid(repo) # 0 =>
                    \E j \in DOMAIN repo'.commits[Len(repo'.commits)].parent :
                        repo'.commits[Len(repo'.commits)].parent[j] = HeadOid(repo)
              /\ Len(log(repo')) = Len(log(repo)) + 1]_vars

----------------------------------------------------------------------------
(* The ref list *)

\* the refs of the store that are typed as the current position
CurrentRefs == {x \in refs : x.type = "HEAD"}

\* C24: a refreshed ref list that is not empty has exactly one ref typed
\* HEAD, that ref is the branch the session is on, and every other ref is
\* typed branch
OneCurrentRef ==
    (lastOp = "refreshed" /\ refs # {}) =>
        /\ Cardinality(CurrentRefs) = 1
        /\ \A x \in CurrentRefs : repo.detached = 0 /\ x.name = repo.head
        /\ \A x \in refs \ CurrentRefs : x.type = "branch"

----------------------------------------------------------------------------
(* Refresh *)

\* C25: a refresh in which exactly one of the three fetches fails stores the
\* empty result for that piece and the results of the other two, goes on to
\* the evaluation of the win condition, and ends outside its catch block
OneFailedFetch ==
    [][\A t \in BagToSet(tasks) :
          (FetchStep(t) /\ Cardinality(Failing(repo)) = 1) =>
              /\ commits' = IF "log" \in Failing(repo) THEN <<>> ELSE log(repo)
              /\ refs' = IF "getRefs" \in Failing(repo) THEN {} ELSE getRefs(repo)
              /\ fileTree' = IF "getFileTree" \in Failing(repo) THEN NoFiles
                             ELSE repo.work
              /\ lastOp' \in {"fetch", "refreshed"}
              /\ lastOp' = "refreshed" =>
                    \/ t.phase = 2 /\ t.wasCompleted
                    \/ isLevelComplete' =
                          checkWinCondition(LevelAt(currentLevel).winCondition,
                                            commits', refs', NotAwaited)]_vars

\* a refresh has run in a repository without a commit that holds a file: the
\* log failed, and the file is in the store's tree
LogFailedAlone ==
    /\ lastOp = "refreshed"
    /\ Failing(repo) = {"log"}
    /\ commits = <<>>
    /\ fileTree # NoFiles
    /\ fileTree = repo.work

----------------------------------------------------------------------------
(* The text of an answer *)

\* the text an answer joins to is the empty string
Silent(out) == \A i \in DOMAIN out : out[i] = ""

\* C26: whatever line is submitted, the text gitService.executeCommand
\* resolves with is not empty
NeverSilent ==
    \A cmd \in CommandLines : ~Silent(executeCommand(repo, cmd).out)

----------------------------------------------------------------------------
(* Level entry *)

\* the handlers that start a level entry
EntryOps == {"mount", "select", "nextLevel", "previousLevel", "resetLevel"}

\* C27: in a level entry that initializes, resetRepo is the first step; the
\* setup entries follow it one at a time in list order, each on the repository
\* the one before left, up to the last one; the refresh comes after the replay
\* and reads commits, refs and file tree from the repository the replay left;
\* and the win condition is evaluated on what that refresh stored
EntryInOrder ==
    [][\A t \in BagToSet(tasks) :
          LET setup == LevelAt(currentLevel).setup
          IN  /\ ResetStep(t) => lastOp \in EntryOps
              /\ SetupStep(t) =>
                    /\ lastOp = IF t.i = 1 THEN "resetRepo" ELSE "setup"
                    /\ repo' = RunEntry(repo, setup[t.i]).repo
                    /\ lastOp' = "setup" =>
                          \E u \in BagToSet(tasks') : u.pc = "setup" /\ u.i = t.i + 1
                    /\ lastOp' # "setup" => t.i = Len(setup)
              /\ (FetchStep(t) /\ t.kind = "level" /\ t.phase = 1
                    /\ lastOp \notin EntryOps) =>
                    /\ lastOp = "replayed"
                    /\ commits' = log(repo)
                    /\ refs' = getRefs(repo)
                    /\ fileTree' = getFileTree(repo)
              /\ ((FetchStep(t) \/ BranchStep(t)) /\ t.kind = "level" /\ t.phase = 1
                    /\ lastOp' = "refreshed") =>
                    isLevelComplete' =
                        checkWinCondition(LevelAt(currentLevel).winCondition,
                                          commits', refs',
                                          CurrentBranchOrThrows(repo))]_vars

\* an entry of a level with several setup entries has gone through resetRepo,
\* the whole replay and the refresh, and its condition was evaluated
EnteredInOrder ==
    /\ lastOp = "refreshed"
    /\ \E t \in BagToSet(tasks) :
          /\ t.kind = "level" /\ t.pc = "fetch" /\ t.phase = 2
          /\ t.i = Len(LevelAt(currentLevel).setup)
          /\ t.i >= 3
    /\ currentLevel \in initializedLevels
    /\ commits # <<>>
    /\ commits = log(repo)

\* C28: an entry into a level that is in initializedLevels, other than by
\* resetLevel, starts neither resetRepo nor the setup replay, and no step of
\* it changes the repository: commits, branches, current branch, working
\* files and stash stack stay as they were; resetLevel starts with resetRepo,
\* and the setup replay follows it from the first entry
InitializedEntryKeeps ==
    [][/\ (lastOp' \in EntryOps \ {"resetLevel"} /\ currentLevel' \in initializedLevels) =>
             /\ repo' = repo
             /\ \A u \in BagToSet(tasks') : u.pc \notin {"reset", "setup"}
       /\ (tasks # EmptyBag
             /\ \A t \in BagToSet(tasks) : t.kind = "level" /\ t.pc \notin {"reset", "setup"}) =>
             repo' = repo
       /\ lastOp' = "resetLevel" =>
             \E u \in BagToSet(tasks') : u.pc = "reset" /\ u.level = currentLevel
       /\ \A t \in BagToSet(tasks) :
             ResetStep(t) =>
                 /\ repo' = resetRepo(repo)
                 /\ \E u \in BagToSet(tasks') : u.pc = "setup" /\ u.i = 1]_vars

\* the player came back to an initialized level whose setup makes one commit:
\* the entry has refreshed without running an entry of the setup, and the
\* repository still holds the two commits it held
CameBack ==
    /\ lastOp = "refreshed"
    /\ currentLevel \in initializedLevels
    /\ Len(LevelAt(currentLevel).setup) >= 3
    /\ \E t \in BagToSet(tasks) :
          t.kind = "level" /\ t.pc = "fetch" /\ t.phase = 2 /\ t.i = 1
    /\ Len(repo.commits) >= 2
    /\ Len(commits) >= 2

\* a setup entry that does not succeed on a repository: its writeFile throws,
\* or the text its command comes back with reports a failure
EntryFails(r, entry) ==
    IF entry[1] = "echo" THEN RunEntry(r, entry).threw
    ELSE IF entry[1] = "git" THEN Refusal(executeCommand(r, entry).out)
    ELSE FALSE

\* C29: when a setup entry of a replay does not succeed, the replay runs no
\* further entry and the level is not added to initializedLevels
FailedEntryAborts ==
    [][\A t \in BagToSet(tasks) :
          (SetupStep(t) /\ EntryFails(repo, LevelAt(t.level).setup[t.i])) =>
              /\ \A u \in BagToSet(tasks') : u.pc # "setup"
              /\ initializedLevels' = initializedLevels]_vars

----------------------------------------------------------------------------
(* The store of git-learning-game: level initialization with a retried reset *)

\* for (let i = 0; i < 3 && !resetSuccess; i++)
RetryLimit == 3

\* if (i === 2) throw error
LastAttempt == 2

\* gitService.reset() when it resolves: /repo exists, everything in it but
\* .git is removed, and the repository is initialized unless it was there
resetResolved(r) == init([r EXCEPT !.work = NoFiles])

\* what gitService.reset() may leave behind when it rejects: nothing done, or
\* the files of /repo removed before the initialization failed
resetRejected(r) == {r, [r EXCEPT !.work = NoFiles]}

\* a reset loop that never gives an error on
AfterFailedAttemptForgives(i) ==
    IF i + 1 < RetryLimit THEN "retry" ELSE "setup"

\* the reset loop after attempt i has failed: the error of the last attempt is
\* thrown on; otherwise i is incremented and the loop condition decides
AfterFailedAttempt(i) ==
    IF i = LastAttempt THEN "throw"
    ELSE IF i + 1 < RetryLimit THEN "retry" ELSE "setup"

\* setCurrentLevel: the store is set and initLevel starts with its reset loop
\* at i = 0
OlderSetCurrentLevel(level) ==
    /\ currentLevel' = level
    /\ isLevelComplete' = FALSE
    /\ Spawn(Task("level", "reset", level, FALSE, 0, 1, level, <<>>))
    /\ lastOp' = "enter"
    /\ UNCHANGED <<repo, completedLevels, initializedLevels, commits, refs,
                   fileTree, mounted>>

\* initLevel's catch: the store is given empty commits, refs and file tree
OlderCatch(t) ==
    /\ commits' = <<>>
    /\ refs' = {}
    /\ fileTree' = NoFiles
    /\ Finish(t)
    /\ UNCHANGED <<currentLevel, completedLevels, initializedLevels,
                   isLevelComplete, mounted>>

\* initLevel, one pass of the reset loop: gitService.reset() resolves and the
\* loop ends, or it rejects and the loop retries, gives the error on to the
\* catch, or runs out
OlderResetAttempt(t) ==
    /\ t.pc = "reset"
    /\ \/ /\ repo' = resetResolved(repo)
          /\ Become(t, [t EXCEPT !.pc = "setup", !.i = 1])
          /\ lastOp' = "reset"
          /\ UNCHANGED <<storeVars, mounted>>
       \/ /\ repo' \in resetRejected(repo)
          /\ CASE AfterFailedAttempt(t.i) = "throw" ->
                    /\ OlderCatch(t)
                    /\ lastOp' = "reset gave up"
               [] AfterFailedAttempt(t.i) = "retry" ->
                    /\ Become(t, [t EXCEPT !.i = t.i + 1])
                    /\ lastOp' = "reset failed"
                    /\ UNCHANGED <<storeVars, mounted>>
               [] OTHER ->
                    /\ Become(t, [t EXCEPT !.pc = "setup", !.i = 1])
                    /\ lastOp' = "reset failed"
                    /\ UNCHANGED <<storeVars, mounted>>

\* initLevel, the body of the setup loop (the version-control entries change
\* the repository as they do in RunEntry); an entry that throws goes to the
\* catch, the last one is followed by refresh
OlderSetupStep(t) ==
    /\ t.pc = "setup"
    /\ LET w    == RunEntry(repo, LevelAt(t.level).setup[t.i])
           last == t.i = Len(LevelAt(t.level).setup)
       IN  /\ repo' = w.repo
           /\ IF w.threw
              THEN /\ OlderCatch(t)
                   /\ lastOp' = "setup failed"
              ELSE /\ Become(t, IF last THEN [t EXCEPT !.pc = "fetch"]
                                ELSE [t EXCEPT !.i = t.i + 1])
                   /\ lastOp' = "setup"
                   /\ UNCHANGED <<storeVars, mounted>>

\* refresh: the three fetches land in the store and a level whose condition
\* holds is completed unless the flag is already set
OlderRefresh(t) ==
    /\ t.pc = "fetch"
    /\ commits' = log(repo)
    /\ refs' = getRefs(repo)
    /\ fileTree' = getFileTree(repo)
    /\ IF checkWinCondition(LevelAt(currentLevel).winCondition, commits', refs',
                            CurrentBranchOrThrows(repo)) /\ ~isLevelComplete
       THEN completeLevel
       ELSE UNCHANGED <<completedLevels, isLevelComplete>>
    /\ Finish(t)
    /\ lastOp' = "refreshed"
    /\ UNCHANGED <<repo, currentLevel, initializedLevels, mounted>>

\* the step stays within OlderCommits commits
Quay == Len(repo'.commits) <= OlderCommits

\* the player moves between the first levels, one entry at a time
NextOlder ==
    \/ \E level \in 0..OlderLevel : Idle /\ OlderSetCurrentLevel(level) /\ Quay
    \/ \E t \in BagToSet(tasks) : OlderResetAttempt(t) /\ Quay
    \/ \E t \in BagToSet(tasks) : OlderSetupStep(t) /\ Quay
    \/ \E t \in BagToSet(tasks) : OlderRefresh(t) /\ Quay

SpecOlder == Init /\ [][NextOlder]_vars

\* C30: the reset loop of initLevel makes at most 3 attempts and none after
\* one that succeeded; when the third attempt fails too, initLevel ends there
\* with no setup entry run, and the store holds no commit, no ref and an
\* empty file tree
ResetRetried ==
    [][\A t \in BagToSet(tasks) :
          OlderResetAttempt(t) =>
              /\ t.i < 3
              /\ lastOp' = "reset" =>
                    \A u \in BagToSet(tasks') : u.pc = "setup" /\ u.i = 1
              /\ (lastOp' # "reset" /\ t.i < 2) =>
                    \A u \in BagToSet(tasks') : u.pc = "reset" /\ u.i = t.i + 1
              /\ (lastOp' # "reset" /\ t.i = 2) =>
                    /\ tasks' = EmptyBag
                    /\ commits' = <<>>
                    /\ refs' = {}
                    /\ fileTree' = NoFiles]_vars

\* the third reset attempt of an entry has failed in a repository with a
\* commit: initLevel is over and the store was emptied
GaveUp ==
    /\ lastOp = "reset gave up"
    /\ tasks = EmptyBag
    /\ repo.commits # <<>>
    /\ commits = <<>> /\ refs = {} /\ fileTree = NoFiles

----------------------------------------------------------------------------
(* A reset that fails *)

\* resetRepo's try block throws: readdir finds no /repo
ResetFails(r) == ~r.exists

\* C31: when the reset of a level entry fails, the entry runs no setup entry
\* and the level is not added to initializedLevels
ResetFailureSurfaced ==
    [][\A t \in BagToSet(tasks) :
          /\ (ResetStep(t) /\ ResetFails(repo)) =>
                \A u \in BagToSet(tasks') : u.pc # "setup"
          /\ (SetupStep(t) /\ ResetFails(repo)) =>
                initializedLevels' = initializedLevels]_vars

----------------------------------------------------------------------------
(* The graph of git-learning-game *)

\* nodes whose order is their index in the list
OlderGraphNodesByIndex(cs, rs) ==
    [i \in DOMAIN cs |->
        LET commitRefs == {x \in rs : x.oid = cs[i].oid}
        IN  [id |-> cs[i].oid,
             message |-> IF cs[i].message = <<>> THEN <<"(no message)">>
                         ELSE cs[i].message,
             refs |-> commitRefs,
             isHead |-> \E x \in commitRefs : x.type = "HEAD",
             order |-> i - 1]]

\* GitGraph, the nodes: commits.map over the list, most recent first; index is
\* i - 1
OlderGraphNodes(cs, rs) ==
    [i \in DOMAIN cs |->
        LET commitRefs == {x \in rs : x.oid = cs[i].oid}
        IN  [id |-> cs[i].oid,
             message |-> IF cs[i].message = <<>> THEN <<"(no message)">>
                         ELSE cs[i].message,
             refs |-> commitRefs,
             isHead |-> \E x \in commitRefs : x.type = "HEAD",
             order |-> Len(cs) - (i - 1)]]

\* C32: the graph has one node per commit of the log, with the commit's id;
\* the order values are pairwise distinct and fall from the newest commit to
\* the oldest; and the nodes flagged as head are exactly those the ref typed
\* HEAD points at
OneNodePerCommit ==
    \E cs \in {GitCommits(repo)} : \E rs \in {getRefs(repo)} :
        \E nodes \in {OlderGraphNodes(cs, rs)} :
            /\ Len(nodes) = Len(log(repo))
            /\ \A i \in DOMAIN nodes : nodes[i].id = log(repo)[i]
            /\ \A i, j \in DOMAIN nodes :
                  /\ i # j => nodes[i].id # nodes[j].id
                  /\ i < j => nodes[i].order > nodes[j].order
            /\ \A i \in DOMAIN nodes :
                  nodes[i].isHead <=>
                      (\E x \in rs : x.type = "HEAD" /\ x.oid = nodes[i].id)

\* three commits are loaded and the current branch points at the middle one:
\* its node alone is flagged
MiddleNodeIsHead ==
    \E nodes \in {OlderGraphNodes(GitCommits(repo), getRefs(repo))} :
        /\ Len(nodes) = 3
        /\ nodes[2].isHead /\ ~nodes[1].isHead /\ ~nodes[3].isHead
        /\ nodes[1].order = 3 /\ nodes[3].order = 1

----------------------------------------------------------------------------
(* Lanes *)

\* getRefs: the refs as a list, in the order of listBranches (by name)
RefList(rs) ==
    LET named(n) == {x \in rs : x.name = n}
        one(n)   == IF named(n) = {} THEN <<>> ELSE <<CHOOSE x \in named(n) : TRUE>>
    IN  one("feature") \o one("main")

\* the refs of a list that point at a commit, in the order of the list
RefsAt(rl, oid) ==
    LET at(x) == x.oid = oid
    IN  SelectSeq(rl, at)

\* GitGraph of src/src, branchLanes after the commits from i on: a commit
\* takes the lane of the first of its refs that has one, and otherwise 0; a
\* commit with refs whose lane is 0 gets the next lane, under the name of its
\* first ref
RECURSIVE branchLanes(_, _, _, _, _)
branchLanes(cs, rl, i, lanes, nextLane) ==
    IF i > Len(cs) THEN lanes
    ELSE LET commitRefs == RefsAt(rl, cs[i].oid)
             found      == {k \in DOMAIN commitRefs : commitRefs[k].name \in DOMAIN lanes}
             first      == CHOOSE k \in found : \A m \in found : k <= m
             lane       == IF found = {} THEN 0 ELSE lanes[commitRefs[first].name]
         IN  IF lane = 0 /\ commitRefs # <<>>
             THEN branchLanes(cs, rl, i + 1, Put(lanes, commitRefs[1].name, nextLane),
                              nextLane + 1)
             ELSE branchLanes(cs, rl, i + 1, lanes, nextLane)

\* GitGraph of git-learning-game, branchLaneMap after the commits from i on:
\* a commit goes under the name of its HEAD ref, else of its first branch
\* ref, else under 'main', and a name met for the first time gets the next lane
RECURSIVE branchLaneMap(_, _, _, _, _)
branchLaneMap(cs, rl, i, lanes, nextLane) ==
    IF i > Len(cs) THEN lanes
    ELSE LET commitRefs == RefsAt(rl, cs[i].oid)
             isHEAD(x)   == x.type = "HEAD"
             isBranch(x) == x.type = "branch"
             heads       == SelectSeq(commitRefs, isHEAD)
             branches    == SelectSeq(commitRefs, isBranch)
             branchName  == IF heads # <<>> THEN heads[1].name
                            ELSE IF branches # <<>> THEN branches[1].name
                            ELSE "main"
         IN  IF branchName \notin DOMAIN lanes
             THEN branchLaneMap(cs, rl, i + 1, Put(lanes, branchName, nextLane),
                                nextLane + 1)
             ELSE branchLaneMap(cs, rl, i + 1, lanes, nextLane)

\* every branch name among the refs has a lane in a lane map, and no two of
\* them share one
OwnLane(lanes, rs) ==
    /\ \A x \in rs : x.name \in DOMAIN lanes
    /\ \A x, y \in rs : x.name # y.name => lanes[x.name] # lanes[y.name]

\* C33: when the log is not empty, each graph builder gives every branch name
\* among the refs a lane of its own
EveryBranchOwnLane ==
    \E cs \in {GitCommits(repo)} : \E rs \in {getRefs(repo)} :
        cs # <<>> =>
            /\ OwnLane(branchLanes(cs, RefList(rs), 1, NoHeads, 0), rs)
            /\ OwnLane(branchLaneMap(cs, RefList(rs), 1, NoHeads, 0), rs)

----------------------------------------------------------------------------
(* Progress through the levels *)

\* C34: every level below the current one is completed, and the flag is set
\* only on a completed level, whatever handlers overlap
LevelsBelowCompleted ==
    /\ \A l \in 0..(currentLevel - 1) : l \in completedLevels
    /\ isLevelComplete => currentLevel \in completedLevels

CompletedByOwnWin ==
    [][\A l \in completedLevels' \ completedLevels :
          /\ l = currentLevel
          /\ checkWinCondition(LevelAt(l).winCondition, commits', refs',
                               CurrentBranchOrThrows(repo))]_vars

\* C37: the step that ends a setup replay adds to initializedLevels the index
\* of the level whose setup was replayed, and no other step adds an index
ReplayedLevelMarked ==
    [][/\ \A t \in BagToSet(tasks) :
             (SetupStep(t) /\ lastOp' = "replayed")
                 => initializedLevels' = initializedLevels \cup {t.level}
       /\ (initializedLevels' # initializedLevels) => lastOp' = "replayed"]_vars

\* C38: after a refresh that found at least one commit, every ref of the
\* store targets a commit of the store's commit list
RefsOnGraph ==
    (lastOp = "refreshed" /\ commits # <<>>)
        => \A x \in refs : \E i \in DOMAIN commits : commits[i] = x.oid

=============================================================================
